---------------------------- MODULE Spec2Model ----------------------------
(***************************************************************************)
(* Model of nuxt-safe-runtime-config: the environment-variable key         *)
(* grouper (src/utils/transform.ts), the Shelve provider resolver and      *)
(* secrets client with its cache (src/providers/shelve.ts), the validation *)
(* of the runtime config and the module setup with the lifecycle hooks and *)
(* server plugins it registers (src/module.ts).                            *)
(*                                                                         *)
(* Strings whose characters matter (variable keys, urls, cache keys) are   *)
(* sequences of one-character strings; other strings are atoms.            *)
(***************************************************************************)
EXTENDS Integers, Sequences, FiniteSets, TLC

VARIABLES
    secretsCache,   \* Map<cacheKey, {data, expires}> of the provider module
    now,            \* Date.now()
    calls,          \* the logical fetchShelveSecrets calls and where each stands
    rIn,            \* inputs of one resolveShelveConfig call
    rOut,           \* what that call returned or threw
    tVars,          \* input of one transformEnvVars call
    tOut,           \* what that call returned or threw
    wOut,           \* what the wizard's transformKeysToStructure made of the same keys
    vIn,            \* arguments of one validateRuntimeConfig call and what the schema answers
    vOut,           \* what that call logged and whether it raised
    sIn,            \* module options and surroundings of one run of the module
    nuxt,           \* the host during that run: its options, hooks and lifecycle
    server,         \* the server started from the build: its config and plugins
    nIn,            \* the schema node of one jsonSchemaToTs call
    nOut            \* the type signature that call returned

vars == <<secretsCache, now, calls, rIn, rOut, tVars, tOut, wOut, vIn, vOut, sIn, nuxt, server, nIn, nOut>>

fetchVars == <<secretsCache, now, calls>>
resolveVars == <<rIn, rOut>>
transformVars == <<tVars, tOut, wOut>>
validateVars == <<vIn, vOut>>
setupVars == <<sIn, nuxt, server>>
typeVars == <<nIn, nOut>>

(***************************************************************************)
(* Characters and strings                                                  *)
(***************************************************************************)
Uppers == <<"A","B","C","D","E","F","G","H","I","J","K","L","M",
            "N","O","P","Q","R","S","T","U","V","W","X","Y","Z">>
Lowers == <<"a","b","c","d","e","f","g","h","i","j","k","l","m",
            "n","o","p","q","r","s","t","u","v","w","x","y","z">>

IsUpper(c) == \E i \in DOMAIN Uppers : Uppers[i] = c
IsLower(c) == \E i \in DOMAIN Lowers : Lowers[i] = c

\* String.prototype.toLowerCase / toUpperCase on one character
toLowerChar(c) == IF IsUpper(c) THEN Lowers[CHOOSE i \in DOMAIN Uppers : Uppers[i] = c] ELSE c
toUpperChar(c) == IF IsLower(c) THEN Uppers[CHOOSE i \in DOMAIN Lowers : Lowers[i] = c] ELSE c

toLowerCase(s) == [i \in DOMAIN s |-> toLowerChar(s[i])]

\* str.slice(n)
slice(s, n) == SubSeq(s, n + 1, Len(s))

\* str.startsWith(lit)
startsWith(s, lit) == Len(s) >= Len(lit) /\ SubSeq(s, 1, Len(lit)) = lit

\* position of the first '_' of s, 0 when there is none
RECURSIVE firstSep(_, _)
firstSep(s, i) ==
    IF i > Len(s) THEN 0
    ELSE IF s[i] = "_" THEN i
    ELSE firstSep(s, i + 1)

\* s.replace(/_([a-z])/g, (_, c) => c.toUpperCase()), scanning from position i
RECURSIVE replaceSepLower(_, _)
replaceSepLower(s, i) ==
    IF i > Len(s) THEN <<>>
    ELSE IF s[i] = "_" /\ i + 1 <= Len(s) /\ IsLower(s[i + 1])
         THEN <<toUpperChar(s[i + 1])>> \o replaceSepLower(s, i + 2)
         ELSE <<s[i]>> \o replaceSepLower(s, i + 1)

toCamelCase(str) == replaceSepLower(toLowerCase(str), 1)

\* the null a lookup returns; no key is this sequence (its element is no character)
Null == <<"null">>

\* if (x) on a string or null
Truthy(x) == x # Null /\ x # <<>>

getPrefix(key) ==
    IF firstSep(key, 1) = 0 THEN Null
    ELSE SubSeq(key, 1, firstSep(key, 1) - 1)

\* the Map countPrefixes builds, as a function on the prefixes it holds
RECURSIVE countFrom(_, _, _)
countFrom(vs, i, counts) ==
    IF i > Len(vs) THEN counts
    ELSE LET prefix == getPrefix(vs[i].key)
         IN  IF Truthy(prefix)
             THEN countFrom(vs, i + 1,
                    (prefix :> ((IF prefix \in DOMAIN counts THEN counts[prefix] ELSE 0) + 1))
                        @@ counts)
             ELSE countFrom(vs, i + 1, counts)

countPrefixes(vs) == countFrom(vs, 1, <<>>)

\* prefixCounts.get(p) || 0
countOf(prefixCounts, p) == IF p \in DOMAIN prefixCounts THEN prefixCounts[p] ELSE 0


(***************************************************************************)
(* JavaScript objects as the transform builds them: a tree of own          *)
(* properties, held as the set of paths that are objects and the string    *)
(* leaves.  err is set when the call threw (the module is an ES module, so *)
(* assigning a property on a string primitive is a TypeError).             *)
(***************************************************************************)
EmptyObject == [err |-> FALSE, leaves |-> <<>>, objs |-> {<<>>}]
TypeError == [err |-> TRUE, leaves |-> <<>>, objs |-> {}]

\* q is p or lies below p
IsUnder(q, p) == Len(q) >= Len(p) /\ SubSeq(q, 1, Len(p)) = p

\* the one all-lower-case, separator-free property every object inherits
constructorKey == <<"c","o","n","s","t","r","u","c","t","o","r">>

\* what obj[k] is, for the property path p
typeAt(T, p) ==
    IF p \in DOMAIN T.leaves THEN "str"
    ELSE IF p \in T.objs THEN "obj"
    ELSE IF Len(p) > 0 /\ p[Len(p)] = constructorKey
              /\ SubSeq(p, 1, Len(p) - 1) \in T.objs THEN "inherited"
    ELSE "undef"

\* parent[k] = v
assignProp(T, parent, k, v) ==
    IF T.err THEN T
    ELSE LET p == Append(parent, k)
         IN  CASE typeAt(T, parent) = "obj" ->
                    [err |-> FALSE,
                     leaves |-> (p :> v) @@ [q \in {r \in DOMAIN T.leaves : ~IsUnder(r, p)} |-> T.leaves[q]],
                     objs |-> {r \in T.objs : ~IsUnder(r, p)}]
               [] typeAt(T, parent) = "inherited" -> T
               [] OTHER -> TypeError

\* parent[k] ??= {}
ensureObject(T, parent, k) ==
    IF T.err THEN T
    ELSE CASE typeAt(T, parent) = "obj" ->
                IF typeAt(T, Append(parent, k)) = "undef"
                THEN [T EXCEPT !.objs = @ \cup {Append(parent, k)}]
                ELSE T
           [] typeAt(T, parent) = "inherited" -> T
           [] OTHER -> TypeError

PUBLIC_ == <<"P","U","B","L","I","C","_">>
NUXT_PUBLIC_ == <<"N","U","X","T","_">> \o PUBLIC_
publicKey == <<"p","u","b","l","i","c">>

(***************************************************************************)
(* transformEnvVars and assignNested                                       *)
(***************************************************************************)
\* prefix && count >= 2: the test both grouping branches make
groups(prefix, count) == Truthy(prefix) /\ count >= 2

assignNested(T, obj, key, value, prefixCounts) ==
    LET prefix == getPrefix(key)
        n1 == countOf(prefixCounts, PUBLIC_ \o prefix)
        n == IF n1 # 0 THEN n1 ELSE countOf(prefixCounts, NUXT_PUBLIC_ \o prefix)
    IN  IF groups(prefix, n)
        THEN LET groupKey == toCamelCase(prefix)
                 nestedKey == toCamelCase(slice(key, Len(prefix) + 1))
             IN  assignProp(ensureObject(T, obj, groupKey), Append(obj, groupKey), nestedKey, value)
        ELSE assignProp(T, obj, toCamelCase(key), value)

\* one iteration of the loop of transformEnvVars
transformStep(T, e, prefixCounts) ==
    IF startsWith(e.key, PUBLIC_)
    THEN assignNested(ensureObject(T, <<>>, publicKey), <<publicKey>>,
                      slice(e.key, 7), e.value, prefixCounts)
    ELSE IF startsWith(e.key, NUXT_PUBLIC_)
    THEN assignNested(ensureObject(T, <<>>, publicKey), <<publicKey>>,
                      slice(e.key, 12), e.value, prefixCounts)
    ELSE LET prefix == getPrefix(e.key)
         IN  IF groups(prefix, countOf(prefixCounts, prefix))
             THEN LET groupKey == toCamelCase(prefix)
                      nestedKey == toCamelCase(slice(e.key, Len(prefix) + 1))
                  IN  assignProp(ensureObject(T, <<>>, groupKey), <<groupKey>>, nestedKey, e.value)
             ELSE assignProp(T, <<>>, toCamelCase(e.key), e.value)

RECURSIVE transformFrom(_, _, _, _)
transformFrom(vs, i, T, prefixCounts) ==
    IF i > Len(vs) \/ T.err THEN T
    ELSE transformFrom(vs, i + 1, transformStep(T, vs[i], prefixCounts), prefixCounts)

transformEnvVars(vs) == transformFrom(vs, 1, EmptyObject, countPrefixes(vs))


(***************************************************************************)
(* The transformEnvVars inputs explored: every list of at most MaxVars     *)
(* entries over TKeys.  The value of an entry is its position, so that     *)
(* entries stay distinguishable in the result.                             *)
(***************************************************************************)
MaxVars == 3

A_X == <<"A","_","X">>
A_Y == <<"A","_","Y">>
B_X == <<"B","_","X">>

TKeys == {
    <<"A">>, A_X, A_Y, B_X,                       \* GITHUB, GITHUB_X, GITHUB_Y, DATABASE_X
    <<"_","X">>,                                  \* leading separator
    <<"a","_","X">>,                              \* lower-case spelling of A_X
    <<"A","_","_","X">>, <<"A","_">>,             \* consecutive and trailing separators
    <<"A","_","1">>,                              \* a segment that starts with a digit
    PUBLIC_ \o <<"X">>, PUBLIC_ \o A_X, PUBLIC_ \o A_Y,
    NUXT_PUBLIC_ \o A_X, NUXT_PUBLIC_ \o A_Y,
    <<"N","U","X","T","_","X">>,                  \* NUXT_ without PUBLIC_
    <<"P","U","B","L","I","C">>,                  \* PUBLIC without separator
    <<"C","O","N","S","T","R","U","C","T","O","R","_","X">>,
    <<"C","O","N","S","T","R","U","C","T","O","R","_","Y">> }

\* the list of the keys ks, each entry's value telling its place in the list
TInputs(ks) == [i \in DOMAIN ks |-> [key |-> ks[i], value |-> i]]

\* tOut before the call has run (a returned object always holds its root)
NotRun == [err |-> FALSE, leaves |-> <<>>, objs |-> {}]

TransformInit ==
    /\ \E n \in 0..MaxVars : \E ks \in [1..n -> TKeys] : tVars = TInputs(ks)
    /\ tOut = NotRun
    /\ wOut = NotRun

\* the call transformEnvVars(tVars)
Transform ==
    /\ tOut = NotRun
    /\ tOut' = transformEnvVars(tVars)
    /\ UNCHANGED <<tVars, wOut>>

(***************************************************************************)
(* The setup wizard's transformKeysToStructure (src/wizard/shelve-setup.ts)*)
(* builds the structure of the schema it generates from the keys alone;    *)
(* every leaf is true, held here as 0.                                     *)
(***************************************************************************)
NUXT_ == <<"N","U","X","T","_">>

stripNuxtPrefix(key) ==
    IF startsWith(key, NUXT_PUBLIC_) THEN [key |-> slice(key, 12), isPublic |-> TRUE]
    ELSE IF startsWith(key, PUBLIC_) THEN [key |-> slice(key, 7), isPublic |-> TRUE]
    ELSE IF startsWith(key, NUXT_) THEN [key |-> slice(key, 5), isPublic |-> FALSE]
    ELSE [key |-> key, isPublic |-> FALSE]

\* countPrefixes(normalizedKeys.map(k => k.normalized))
structureCounts(keys) ==
    countPrefixes([i \in DOMAIN keys |-> [key |-> stripNuxtPrefix(keys[i]).key]])

\* assignNestedKey(obj, key, prefixCounts), and the same two branches at the
\* top level (obj the root)
assignNestedKey(T, obj, key, prefixCounts) ==
    LET prefix == getPrefix(key)
    IN  IF groups(prefix, countOf(prefixCounts, prefix))
        THEN LET groupKey == toCamelCase(prefix)
                 nestedKey == toCamelCase(slice(key, Len(prefix) + 1))
             IN  assignProp(ensureObject(T, obj, groupKey), Append(obj, groupKey), nestedKey, 0)
        ELSE assignProp(T, obj, toCamelCase(key), 0)

\* one iteration of the loop of transformKeysToStructure
structureStep(T, key, prefixCounts) ==
    LET k == stripNuxtPrefix(key)
    IN  IF k.isPublic
        THEN assignNestedKey(ensureObject(T, <<>>, publicKey), <<publicKey>>, k.key, prefixCounts)
        ELSE assignNestedKey(T, <<>>, k.key, prefixCounts)

RECURSIVE structureFrom(_, _, _, _)
structureFrom(keys, i, T, prefixCounts) ==
    IF i > Len(keys) \/ T.err THEN T
    ELSE structureFrom(keys, i + 1, structureStep(T, keys[i], prefixCounts), prefixCounts)

transformKeysToStructure(keys) == structureFrom(keys, 1, EmptyObject, structureCounts(keys))

\* the keys both paths are run on
WKeys == {
    PUBLIC_ \o A_X, PUBLIC_ \o A_Y, NUXT_PUBLIC_ \o A_X, NUXT_PUBLIC_ \o A_Y,
    PUBLIC_ \o <<"X">>, NUXT_ \o A_X, NUXT_ \o <<"X">>, A_X, A_Y, <<"A">>,
    <<"P","U","B","L","I","C">> }

StructureInit ==
    /\ \E n \in 0..MaxVars : \E ks \in [1..n -> WKeys] : tVars = TInputs(ks)
    /\ tOut = NotRun
    /\ wOut = NotRun

\* the call transformKeysToStructure(keys) on the keys of tVars
Structure ==
    /\ wOut = NotRun
    /\ wOut' = transformKeysToStructure([i \in DOMAIN tVars |-> tVars[i].key])
    /\ UNCHANGED <<tVars, tOut>>


(***************************************************************************)
(* resolveShelveConfig.  A string is a sequence of atoms ("" is <<>>),     *)
(* undefined and null are Null; the characters of a url are kept apart     *)
(* where the code looks at them (its trailing slashes).                    *)
(***************************************************************************)
\* a || b
Or(a, b) == IF Truthy(a) THEN a ELSE b

DEFAULT_URL == <<"https://app.shelve.cloud">>

\* url.replace(/\/+$/, '')
RECURSIVE stripTrailingSlashes(_)
stripTrailingSlashes(url) ==
    IF Len(url) > 0 /\ url[Len(url)] = "/"
    THEN stripTrailingSlashes(SubSeq(url, 1, Len(url) - 1))
    ELSE url

\* String.prototype.trim, on the blanks the rc-file values here can carry
RECURSIVE trim(_)
trim(s) ==
    IF Len(s) > 0 /\ s[1] = " " THEN trim(Tail(s))
    ELSE IF Len(s) > 0 /\ s[Len(s)] = " " THEN trim(SubSeq(s, 1, Len(s) - 1))
    ELSE s

\* package.json under cwd: pkg.exists, pkg.parses (JSON.parse succeeds), pkg.name
getPackageName(pkg) ==
    IF ~pkg.exists THEN Null
    ELSE IF ~pkg.parses THEN Null
    ELSE Or(pkg.name, Null)

\* ~/.shelve: rc.exists, rc.match is what the token line's group captures
\* (Null when no line matches)
getUserToken(rc) ==
    IF ~rc.exists THEN Null
    ELSE IF rc.match = Null THEN Null
    ELSE Or(trim(rc.match), Null)

NoConfig == [project |-> Null, slug |-> Null, environment |-> Null, url |-> Null, token |-> Null]

\* the three messages (the back-quotes of the last are left out)
ProjectRequired == "[safe-runtime-config] Shelve project name required. Set in nuxt.config or package.json name"
SlugRequired == "[safe-runtime-config] Shelve team slug required. Set in nuxt.config or SHELVE_TEAM env"
TokenRequired == "[safe-runtime-config] Shelve token required. Set SHELVE_TOKEN env or run shelve login"

Thrown(message) == [status |-> "thrown", message |-> message, config |-> NoConfig]
Returned(config) == [status |-> "returned", message |-> "", config |-> config]

\* a variant of resolvedProject that asks the environment before the options
resolvedProject_EnvFirst(in) ==
    Or(Or(in.env.SHELVE_PROJECT, in.options.project), getPackageName(in.pkg))

resolvedProject(in) ==
    Or(Or(in.options.project, in.env.SHELVE_PROJECT), getPackageName(in.pkg))

resolvedSlug(in) ==
    Or(Or(Or(in.options.slug, in.options.team), in.env.SHELVE_TEAM), in.env.SHELVE_TEAM_SLUG)

resolvedEnvironment(in) ==
    Or(Or(in.options.environment, in.env.SHELVE_ENV),
       IF in.isDev THEN <<"development">> ELSE <<"production">>)

resolvedUrl(in) == Or(Or(in.options.url, in.env.SHELVE_URL), DEFAULT_URL)

resolvedToken(in) == Or(in.env.SHELVE_TOKEN, getUserToken(in.rc))

\* a variant of resolveShelveConfig that checks the token before the project
resolveShelveConfig_TokenFirst(in) ==
    IF ~Truthy(resolvedToken(in)) THEN Thrown(TokenRequired)
    ELSE IF ~Truthy(resolvedProject(in)) THEN Thrown(ProjectRequired)
    ELSE IF ~Truthy(resolvedSlug(in)) THEN Thrown(SlugRequired)
    ELSE Returned([project |-> resolvedProject(in), slug |-> resolvedSlug(in),
                   environment |-> resolvedEnvironment(in),
                   url |-> stripTrailingSlashes(resolvedUrl(in)),
                   token |-> resolvedToken(in)])

resolveShelveConfig(in) ==
    IF ~Truthy(resolvedProject(in)) THEN Thrown(ProjectRequired)
    ELSE IF ~Truthy(resolvedSlug(in)) THEN Thrown(SlugRequired)
    ELSE IF ~Truthy(resolvedToken(in)) THEN Thrown(TokenRequired)
    ELSE Returned([project |-> resolvedProject(in), slug |-> resolvedSlug(in),
                   environment |-> resolvedEnvironment(in),
                   url |-> stripTrailingSlashes(resolvedUrl(in)),
                   token |-> resolvedToken(in)])

\* the inputs explored: every source absent or present, each with a value of its own
ROptions ==
    [project : {Null, <<>>, <<"opt-project">>},
     slug : {Null, <<"opt-slug">>},
     team : {Null, <<"opt-team">>},
     environment : {Null, <<"staging">>},
     url : {Null, <<"https://custom.shelve.io", "/", "/", "/">>}]

REnv ==
    [SHELVE_PROJECT : {Null, <<"env-project">>},
     SHELVE_TEAM : {Null, <<"env-team">>},
     SHELVE_TEAM_SLUG : {Null, <<"env-slug-team">>},
     SHELVE_ENV : {Null, <<"preview">>},
     SHELVE_URL : {Null, <<"https://env.shelve.io">>},
     SHELVE_TOKEN : {Null, <<>>, <<"env-token">>}]

RPkg == {[exists |-> FALSE, parses |-> FALSE, name |-> Null],
         [exists |-> TRUE, parses |-> FALSE, name |-> Null],
         [exists |-> TRUE, parses |-> TRUE, name |-> <<"pkg-project">>]}

RRc == {[exists |-> FALSE, match |-> Null],
        [exists |-> TRUE, match |-> <<" ">>],
        [exists |-> TRUE, match |-> <<"file-token">>]}

RInputs == [options : ROptions, env : REnv, pkg : RPkg, rc : RRc, isDev : BOOLEAN]

NotResolved == [status |-> "none", message |-> "", config |-> NoConfig]

ResolveInit ==
    /\ rIn \in RInputs
    /\ rOut = NotResolved

\* the call resolveShelveConfig(options, cwd, isDev)
Resolve ==
    /\ rOut = NotResolved
    /\ rOut' = resolveShelveConfig(rIn)
    /\ UNCHANGED rIn


(***************************************************************************)
(* fetchShelveSecrets, its three remote calls and the secrets cache        *)
(***************************************************************************)
CACHE_TTL == 30000

\* the logical calls of fetchShelveSecrets, numbered in the order they start
Calls == {1, 2}

\* the clock advances in steps of CACHE_TTL / TicksPerTTL, MaxTicks times at most
TicksPerTTL == 2
MaxTicks == 2
TickStep == CACHE_TTL \div TicksPerTTL

\* createHash('sha256').update(token).digest('hex').slice(0, 8), on the tokens used
\* here (the digests are the real ones: the first two tokens share theirs)
tokenHash(token) ==
    CASE token = <<"token33697">> -> <<"ed183822">>
      [] token = <<"token45436">> -> <<"ed183822">>
      [] token = <<"token1">> -> <<"df3e6b0b">>

\* a variant of cacheKeyOf that tells the endpoints apart
cacheKeyOf_WithUrl(config) ==
    config.url \o <<":">> \o config.slug \o <<":">> \o config.project \o <<":">>
        \o config.environment \o <<":">> \o tokenHash(config.token)

cacheKeyOf(config) ==
    config.slug \o <<":">> \o config.project \o <<":">> \o config.environment
        \o <<":">> \o tokenHash(config.token)

baseConfig == [project |-> <<"my-project">>, slug |-> <<"my-team">>,
               environment |-> <<"development">>,
               url |-> <<"https://app.shelve.cloud">>, token |-> <<"token33697">>]

\* the resolved configs the calls are made with
FConfigs == { baseConfig,
              [baseConfig EXCEPT !.token = <<"token45436">>],
              [baseConfig EXCEPT !.token = <<"token1">>],
              [baseConfig EXCEPT !.url = <<"https://eu.shelve.cloud">>] }

\* what the remote API may answer (the last payload makes transformEnvVars throw)
ProjectIds == {1, 42}
EnvironmentIds == {1, 7}
KEY == <<"K","E","Y">>
Payloads == { <<[key |-> KEY, value |-> 1]>>,
              <<[key |-> KEY, value |-> 2]>>,
              <<[key |-> <<"A">>, value |-> 1], [key |-> A_X, value |-> 2],
                [key |-> A_Y, value |-> 3]>> }

\* a rejected $fetch: statusCode 0 stands for an error without statusCode
NotFound == [statusCode |-> 404, message |-> "Not Found"]
BadRequest == [statusCode |-> 400, message |-> "Bad Request"]
ServerError == [statusCode |-> 500, message |-> "Internal Server Error"]
NetworkError == [statusCode |-> 0, message |-> "Network error"]
ProjectErrors == {NotFound, BadRequest, ServerError, NetworkError}
EnvironmentErrors == {NotFound, BadRequest, ServerError, NetworkError}
VariablesErrors == {ServerError, NetworkError}

\* the answers a specification lets the remote API give
AllAnswers == [projectIds |-> ProjectIds, projectErrors |-> ProjectErrors,
               environmentIds |-> EnvironmentIds, environmentErrors |-> EnvironmentErrors,
               variablesErrors |-> VariablesErrors]
FewAnswers == [projectIds |-> {42}, projectErrors |-> {NotFound},
               environmentIds |-> {7}, environmentErrors |-> {NetworkError},
               variablesErrors |-> {ServerError}]

\* what a call threw: kind is the message template, names the identifiers
\* the message quotes, message the underlying message it carries
NoError == [kind |-> "none", names |-> <<>>, message |-> "", statusCode |-> 0]

getStatusCode(error) == error.statusCode

getErrorMessage(error) == error.message

\* a variant of fetchProjectError that takes only 404 for not-found
fetchProjectError_Only404(config, error) ==
    IF getStatusCode(error) = 404
    THEN [kind |-> "ProjectNotFound", names |-> <<config.project, config.slug>>,
          message |-> "", statusCode |-> 0]
    ELSE [kind |-> "FetchFailed", names |-> <<>>,
          message |-> getErrorMessage(error), statusCode |-> 0]

\* the catch block of fetchProject
fetchProjectError(config, error) ==
    IF getStatusCode(error) = 400 \/ getStatusCode(error) = 404
    THEN [kind |-> "ProjectNotFound", names |-> <<config.project, config.slug>>,
          message |-> "", statusCode |-> 0]
    ELSE [kind |-> "FetchFailed", names |-> <<>>,
          message |-> getErrorMessage(error), statusCode |-> 0]

\* a variant of fetchEnvironmentError that tells not-found from other failures,
\* as fetchProject does
fetchEnvironmentError_ByStatus(config, error) ==
    IF getStatusCode(error) = 400 \/ getStatusCode(error) = 404
    THEN [kind |-> "EnvironmentNotFound", names |-> <<config.environment>>,
          message |-> getErrorMessage(error), statusCode |-> 0]
    ELSE [kind |-> "FetchFailed", names |-> <<>>,
          message |-> getErrorMessage(error), statusCode |-> 0]

\* the catch block of fetchEnvironment
fetchEnvironmentError(config, error) ==
    [kind |-> "EnvironmentNotFound", names |-> <<config.environment>>,
     message |-> getErrorMessage(error), statusCode |-> 0]

\* a variant of fetchVariablesError that wraps the rejection as fetchProject does
fetchVariablesError_Wrapped(config, error) ==
    [kind |-> "FetchFailed", names |-> <<>>,
     message |-> getErrorMessage(error), statusCode |-> 0]

\* fetchVariables has no catch block: the rejection propagates as it is
fetchVariablesError(config, error) ==
    [kind |-> "Rejected", names |-> <<>>,
     message |-> error.message, statusCode |-> error.statusCode]

\* transformEnvVars threw
TransformError == [kind |-> "TypeError", names |-> <<>>, message |-> "", statusCode |-> 0]

\* the events of a call: the requests it issues and the answers it gets
Request(endpoint, config, name, projectId, environmentId) ==
    [t |-> "request", endpoint |-> endpoint, url |-> config.url, slug |-> config.slug,
     name |-> name, projectId |-> projectId, environmentId |-> environmentId,
     cookie |-> config.token, ok |-> TRUE, id |-> 0, error |-> NoError, body |-> <<>>]

Response(endpoint, ok, id, error, body) ==
    [t |-> "response", endpoint |-> endpoint, url |-> <<>>, slug |-> <<>>,
     name |-> <<>>, projectId |-> 0, environmentId |-> 0,
     cookie |-> <<>>, ok |-> ok, id |-> id, error |-> error, body |-> body]

NoEntry == [has |-> FALSE, data |-> NotRun, expires |-> 0, writer |-> 0]

\* secretsCache.get(cacheKey)
cacheGet(cache, key) == IF key \in DOMAIN cache THEN cache[key] ELSE NoEntry

\* a variant of cacheSet that keeps an entry the key already has
cacheSet_KeepFirst(cache, key, entry) == cache @@ (key :> entry)

\* secretsCache.set(cacheKey, entry)
cacheSet(cache, key, entry) == (key :> entry) @@ cache

\* a variant of cacheHit that still serves the entry at its expiry
cacheHit_AtExpiry(cached, t) == cached.has /\ cached.expires >= t

\* a variant of cacheHit with the comparison turned round
cacheHit_Inverted(cached, t) == cached.has /\ cached.expires < t

\* cached && cached.expires > Date.now()
cacheHit(cached, t) == cached.has /\ cached.expires > t

\* a call that has not started.  startNow and seen record the clock and the
\* entry under the call's key when it started; writer in an entry is the call
\* that stored it
IdleCall == [pc |-> "idle", config |-> NoConfig, useCache |-> FALSE, trace |-> <<>>,
             projectId |-> 0, environmentId |-> 0,
             out |-> NotRun, error |-> NoError, startNow |-> 0, seen |-> NoEntry]

FetchInit ==
    /\ secretsCache = <<>>
    /\ now = 0
    /\ calls = [c \in Calls |-> IdleCall]

\* whether the call reads the cache at all (lines 150-155)
readsCache(useCache) == useCache

\* a variant of writesCache that stores only when the call may read the cache
writesCache_OnlyCached(useCache) == useCache

\* whether a successful fetch stores its result (line 161)
writesCache(useCache) == TRUE

\* fetchShelveSecrets(config, useCache) up to its first await: the cache lookup
\* and, on a miss, the request of fetchProject
Start(c, config, useCache) ==
    /\ calls[c].pc = "idle"
    /\ \A d \in Calls : d < c => calls[d].pc # "idle"
    /\ LET cached == cacheGet(secretsCache, cacheKeyOf(config))
           started == [IdleCall EXCEPT !.config = config, !.useCache = useCache,
                                       !.startNow = now, !.seen = cached]
       IN  IF readsCache(useCache) /\ cacheHit(cached, now)
           THEN calls' = [calls EXCEPT ![c] =
                    [started EXCEPT !.pc = "done", !.out = cached.data]]
           ELSE calls' = [calls EXCEPT ![c] =
                    [started EXCEPT !.pc = "project",
                        !.trace = <<Request("project", config, config.project, 0, 0)>>]]
    /\ UNCHANGED <<secretsCache, now>>

\* fetchProject settles; on success fetchEnvironment issues its request
ProjectResponse(c, answers) ==
    /\ calls[c].pc = "project"
    /\ \/ \E id \in answers.projectIds :
            calls' = [calls EXCEPT ![c] = [@ EXCEPT
                !.pc = "environment", !.projectId = id,
                !.trace = @ \o <<Response("project", TRUE, id, NoError, <<>>),
                                 Request("environment", calls[c].config,
                                         calls[c].config.environment, 0, 0)>>]]
       \/ \E e \in answers.projectErrors :
            calls' = [calls EXCEPT ![c] = [@ EXCEPT
                !.pc = "failed", !.error = fetchProjectError(calls[c].config, e),
                !.trace = Append(@, Response("project", FALSE, 0, e, <<>>))]]
    /\ UNCHANGED <<secretsCache, now>>

\* a variant of variablesIds with the two ids swapped
variablesIds_Swapped(projectId, environmentId) == <<environmentId, projectId>>

\* the ids fetchVariables is called with (line 159)
variablesIds(projectId, environmentId) == <<projectId, environmentId>>

\* fetchEnvironment settles; on success fetchVariables issues its request
EnvironmentResponse(c, answers) ==
    /\ calls[c].pc = "environment"
    /\ \/ \E id \in answers.environmentIds :
            LET ids == variablesIds(calls[c].projectId, id)
            IN  calls' = [calls EXCEPT ![c] = [@ EXCEPT
                    !.pc = "variables", !.environmentId = id,
                    !.trace = @ \o <<Response("environment", TRUE, id, NoError, <<>>),
                                     Request("variables", calls[c].config, <<>>,
                                             ids[1], ids[2])>>]]
       \/ \E e \in answers.environmentErrors :
            calls' = [calls EXCEPT ![c] = [@ EXCEPT
                !.pc = "failed", !.error = fetchEnvironmentError(calls[c].config, e),
                !.trace = Append(@, Response("environment", FALSE, 0, e, <<>>))]]
    /\ UNCHANGED <<secretsCache, now>>

\* fetchVariables settles; on success the variables are transformed, stored and returned
VariablesResponse(c, answers) ==
    /\ calls[c].pc = "variables"
    /\ \/ \E variables \in Payloads :
            LET transformed == transformEnvVars(variables)
                answered == Append(calls[c].trace, Response("variables", TRUE, 0, NoError, variables))
            IN  IF transformed.err
                THEN /\ calls' = [calls EXCEPT ![c] = [@ EXCEPT
                            !.pc = "failed", !.error = TransformError, !.trace = answered]]
                     /\ UNCHANGED secretsCache
                ELSE /\ calls' = [calls EXCEPT ![c] = [@ EXCEPT
                            !.pc = "done", !.out = transformed, !.trace = answered]]
                     /\ IF writesCache(calls[c].useCache)
                        THEN secretsCache' =
                                cacheSet(secretsCache, cacheKeyOf(calls[c].config),
                                         [has |-> TRUE, data |-> transformed,
                                          expires |-> now + CACHE_TTL, writer |-> c])
                        ELSE UNCHANGED secretsCache
       \/ \E e \in answers.variablesErrors :
            /\ calls' = [calls EXCEPT ![c] = [@ EXCEPT
                    !.pc = "failed", !.error = fetchVariablesError(calls[c].config, e),
                    !.trace = Append(@, Response("variables", FALSE, 0, e, <<>>))]]
            /\ UNCHANGED secretsCache
    /\ UNCHANGED now

\* Date.now() moves on
Tick ==
    /\ now + TickStep <= MaxTicks * TickStep
    /\ now' = now + TickStep
    /\ UNCHANGED <<secretsCache, calls>>

clearSecretsCache ==
    /\ secretsCache # <<>>
    /\ secretsCache' = <<>>
    /\ UNCHANGED <<now, calls>>

(***************************************************************************)
(* validateRuntimeConfig (src/module.ts)                                   *)
(*                                                                         *)
(* A text is a sequence of tokens.  An issue is [hasPath, path, message]:  *)
(* hasPath tells whether issue.path is set (an empty array is set), a path *)
(* segment is an accessor object {key} or a raw property key.              *)
(***************************************************************************)
MaxIssues == 2

\* String(n) of the small numbers the messages hold
Digits == <<"0","1","2","3","4","5","6","7","8","9">>
String(n) == Digits[n + 1]

\* parts.join(sep), from part i on
RECURSIVE joinFrom(_, _, _)
joinFrom(parts, sep, i) ==
    IF i > Len(parts) THEN <<>>
    ELSE IF i = Len(parts) THEN parts[i]
    ELSE parts[i] \o <<sep>> \o joinFrom(parts, sep, i + 1)

join(parts, sep) == joinFrom(parts, sep, 1)

\* p && typeof p === 'object' && 'key' in p ? p.key : p
accessor(p) == IF p.isObject THEN <<p.key>> ELSE <<p.raw>>

\* issue.path ? issue.path.map(...).join('.') : 'root'
pathOf(issue) ==
    IF issue.hasPath
    THEN join([i \in DOMAIN issue.path |-> accessor(issue.path[i])], ".")
    ELSE <<"root">>

formatIssue(issue) ==
    pathOf(issue) \o <<": ">>
        \o (IF issue.message # <<>> THEN issue.message ELSE <<"Validation error">>)

\* result.issues.map((issue, index) => `  ${index + 1}. ${formatIssue(issue)}`)
errorLines(issues) ==
    [i \in DOMAIN issues |-> <<"  ", String(i), ". ">> \o formatIssue(issues[i])]

\* `Validation failed!\n${errorLines.join('\n')}`
failureReport(issues) == <<"Validation failed!", "\n">> \o join(errorLines(issues), "\n")

IncompatibleMessage == <<"Schema is not Standard Schema compatible">>
SuccessMessage == <<"Validated Runtime Config">>

\* a variant of isStandardSchema that does not look for the validate function
isStandardSchema_NoValidateCheck(schema) ==
    schema.isObject /\ schema.hasStandard /\ schema.standardIsObject

isStandardSchema(schema) ==
    /\ schema.isObject
    /\ schema.hasStandard
    /\ schema.standardIsObject
    /\ schema.validateIsFunction

\* a variant of failed that takes an empty issue list for a failure
failed_OnAnyList(result) == result.hasIssues

\* 'issues' in result && result.issues && result.issues.length > 0
failed(result) == result.hasIssues /\ Len(result.issues) > 0

\* a variant of logsSuccess that does not look at the option
logsSuccess_Always(opts) == TRUE

\* if (opts.logSuccess)
logsSuccess(opts) == opts.logSuccess

\* what a call does: the log entries in order, whether it raised, with which
\* error, and whether it called the schema's validate
Done(logs, raised, error, validated) ==
    [logs |-> logs, raised |-> raised, error |-> error, validated |-> validated]

log(level, text) == [level |-> level, text |-> text]

\* onError applied to a failure that is reported with the text msg
applyOnError(opts, msg, error, validated) ==
    IF opts.onError = "throw" THEN Done(<<log("error", msg)>>, TRUE, error, validated)
    ELSE IF opts.onError = "warn" THEN Done(<<log("warn", msg)>>, FALSE, "", validated)
    ELSE Done(<<>>, FALSE, "", validated)

\* result is what schema['~standard'].validate(config) answers when called
validateRuntimeConfig(schema, result, opts) ==
    IF ~isStandardSchema(schema)
    THEN applyOnError(opts, IncompatibleMessage, "Invalid schema format", FALSE)
    ELSE IF result.throws
    THEN Done(<<>>, TRUE, "thrown by the schema", TRUE)
    ELSE IF failed(result)
    THEN applyOnError(opts, failureReport(result.issues),
                      "Runtime config validation failed", TRUE)
    ELSE IF logsSuccess(opts)
    THEN Done(<<log("success", SuccessMessage)>>, FALSE, "", TRUE)
    ELSE Done(<<>>, FALSE, "", TRUE)

(***************************************************************************)
(* The validateRuntimeConfig calls explored                                *)
(***************************************************************************)
ErrorBehaviors == {"throw", "warn", "ignore"}

ObjectSegment(key) == [isObject |-> TRUE, key |-> key, raw |-> ""]
RawSegment(raw) == [isObject |-> FALSE, key |-> "", raw |-> raw]
Issue(hasPath, path, message) == [hasPath |-> hasPath, path |-> path, message |-> message]

IssueShapes == {
    Issue(FALSE, <<>>, <<"Required">>),                           \* no path
    Issue(TRUE, <<>>, <<"Invalid type">>),                        \* path: []
    Issue(TRUE, <<ObjectSegment("secretKey")>>, <<"Required">>),
    Issue(TRUE, <<RawSegment("public"), ObjectSegment("apiBase")>>, <<"Invalid type">>),
    Issue(TRUE, <<RawSegment("port")>>, <<>>) }                   \* no message

\* a schema value by what isStandardSchema can see of it
Schema(isObject, hasStandard, standardIsObject, validateIsFunction) ==
    [isObject |-> isObject, hasStandard |-> hasStandard,
     standardIsObject |-> standardIsObject, validateIsFunction |-> validateIsFunction]

StandardSchema == Schema(TRUE, TRUE, TRUE, TRUE)
Schemas == {
    StandardSchema,
    Schema(TRUE, TRUE, TRUE, FALSE),       \* '~standard' without validate
    Schema(TRUE, TRUE, FALSE, FALSE),      \* '~standard' no object
    Schema(TRUE, FALSE, FALSE, FALSE),     \* no '~standard'
    Schema(FALSE, FALSE, FALSE, FALSE) }   \* no object (a function, a string)

\* what validate answers: it throws, a result without issues, a result with a list
Result(throws, hasIssues, issues) == [throws |-> throws, hasIssues |-> hasIssues, issues |-> issues]

NotValidated == [status |-> "none", logs |-> <<>>, raised |-> FALSE, error |-> "", validated |-> FALSE]

ValidateInit ==
    /\ \E schema \in Schemas, onError \in ErrorBehaviors, logSuccess \in BOOLEAN :
       \E throws, hasIssues \in BOOLEAN :
       \E n \in 0..MaxIssues : \E issues \in [1..n -> IssueShapes] :
            /\ throws => (~hasIssues /\ n = 0)
            /\ ~hasIssues => n = 0
            /\ vIn = [schema |-> schema,
                      result |-> Result(throws, hasIssues, issues),
                      opts |-> [onError |-> onError, logSuccess |-> logSuccess]]
    /\ vOut = NotValidated

\* the call validateRuntimeConfig(config, vIn.schema, vIn.opts)
Validate ==
    /\ vOut.status = "none"
    /\ LET d == validateRuntimeConfig(vIn.schema, vIn.result, vIn.opts)
       IN  vOut' = [status |-> "done", logs |-> d.logs, raised |-> d.raised,
                    error |-> d.error, validated |-> d.validated]
    /\ UNCHANGED vIn

(***************************************************************************)
(* The module's setup (src/module.ts), the host lifecycle that calls the   *)
(* hooks it registers, and the server plugins it generates.                *)
(*                                                                         *)
(* A runtime config is a tree like the one transformEnvVars builds.  The   *)
(* values of fetched variables are their positions (1, 2, ...); the value  *)
(* of a statically configured key is 0.                                    *)
(***************************************************************************)
\* S has a value at q, or above q, that defu takes in place of what B has there
Covered(S, B, q) ==
    \E n \in 1..Len(q) :
        LET r == SubSeq(q, 1, n)
        IN  r \in DOMAIN S.leaves \/ (r \in S.objs /\ r \notin B.objs)

\* defu(S, B): the properties of S, and those of B that S does not set;
\* objects on both sides are merged
defu(S, B) ==
    [err |-> FALSE,
     leaves |-> S.leaves @@ [q \in {r \in DOMAIN B.leaves : ~Covered(S, B, r)} |-> B.leaves[q]],
     objs |-> S.objs \cup {q \in B.objs : ~Covered(S, B, q)}]

countConfigKeys(secrets) ==
    Cardinality({q \in DOMAIN secrets.leaves : Len(q) = 1})
        + Cardinality({q \in (DOMAIN secrets.leaves) \cup secrets.objs : Len(q) = 2})

\* options.shelve: undefined, a boolean, or an object whose enabled and
\* fetchAtBuild are "unset", "true" or "false"; names holds project, slug, team
ShelveOption(kind, enabled, names, fetchAtBuild, fetchAtRuntime) ==
    [kind |-> kind, enabled |-> enabled, names |-> names,
     fetchAtBuild |-> fetchAtBuild, fetchAtRuntime |-> fetchAtRuntime]

NoNames == [project |-> Null, slug |-> Null, team |-> Null, environment |-> Null, url |-> Null]
SomeNames == [NoNames EXCEPT !.project = <<"my-project">>, !.slug = <<"my-team">>]

\* a variant of shouldEnableShelve where a project, slug or team enables the
\* provider whatever enabled is
shouldEnableShelve_NamesFirst(options) ==
    IF options.kind = "false" \/ options.kind = "undefined" THEN FALSE
    ELSE IF options.kind = "true" THEN TRUE
    ELSE options.enabled = "true"
            \/ Truthy(Or(Or(options.names.project, options.names.slug), options.names.team))

shouldEnableShelve(options) ==
    IF options.kind = "false" \/ options.kind = "undefined" THEN FALSE
    ELSE IF options.kind = "true" THEN TRUE
    ELSE IF options.enabled = "false" THEN FALSE
    ELSE options.enabled = "true"
            \/ Truthy(Or(Or(options.names.project, options.names.slug), options.names.team))

normalizeShelveOptions(options) ==
    IF options.kind = "true" \/ options.kind = "undefined"
    THEN ShelveOption("object", "unset", NoNames, "unset", FALSE)
    ELSE IF options.kind = "false"
    THEN ShelveOption("object", "false", NoNames, "unset", FALSE)
    ELSE options

\* the host as setup finds it
NewNuxt(runtimeConfig) ==
    [phase |-> "init",
     runtimeConfig |-> runtimeConfig,          \* nuxt.options.runtimeConfig
     nitroRuntimeConfig |-> runtimeConfig,     \* nuxt.options.nitro.runtimeConfig
     hasShelveConfig |-> FALSE,                \* shelveConfig !== null
     shelveConfig |-> NoConfig,
     hooks |-> <<>>,                           \* nuxt.hook(name, ...) in order
     templates |-> {},                         \* addTemplate, addTypeTemplate
     embedded |-> <<>>,                        \* the configJson of each shelve-plugin written
     imports |-> {},                           \* addImportsDir, addServerImportsDir
     logs |-> <<>>,                            \* what logger wrote
     trace |-> <<>>]                           \* what happened, in order

logTo(N, level, text) == [N EXCEPT !.logs = Append(@, log(level, text))]
did(N, event) == [N EXCEPT !.trace = Append(@, event)]
hook(N, name, plugin) == [N EXCEPT !.hooks = Append(@, [name |-> name, plugin |-> plugin])]
addTemplate(N, filename) == [N EXCEPT !.templates = @ \cup {filename}]
addImportsDir(N, dir) == [N EXCEPT !.imports = @ \cup {dir}]

ShelvePlugin == "safe-runtime-config/shelve-plugin.ts"
ValidatePlugin == "safe-runtime-config/validate-plugin.ts"

\* nuxt.hook('nitro:config', cfg => cfg.plugins.push(pluginPath))
registerNitroPlugin(N, pluginPath) == hook(N, "nitro:config", pluginPath)

\* the text logged for an error: getErrorMessage(error)
errorText(error) == <<error.kind, error.message>>

\* what fetchShelveSecrets ends with on an empty cache, for what the remote
\* API answers: the variables, or a rejection at one of the three requests
fetchOutcome(config, answer) ==
    IF answer.ok
    THEN LET transformed == transformEnvVars(answer.variables)
         IN  IF transformed.err
             THEN [ok |-> FALSE, secrets |-> NotRun, error |-> TransformError]
             ELSE [ok |-> TRUE, secrets |-> transformed, error |-> NoError]
    ELSE [ok |-> FALSE, secrets |-> NotRun,
          error |-> IF answer.at = "project" THEN fetchProjectError(config, answer.error)
                    ELSE IF answer.at = "environment"
                         THEN fetchEnvironmentError(config, answer.error)
                    ELSE fetchVariablesError(config, answer.error)]

\* a variant of rethrows that raises whatever onBuildError is
rethrows_Always(onBuildError) == TRUE

\* if (options.onBuildError === 'throw') throw error
rethrows(onBuildError) == onBuildError = "throw"

\* the catch block of the build-time fetch
catchBuildFetch(N, options, text) ==
    LET logged == logTo(N, "error", text)
    IN  IF rethrows(options.onBuildError)
        THEN [did(logged, "raise") EXCEPT !.phase = "failed"]
        ELSE logged

\* a variant of mergeSecrets in which the existing values win
mergeSecrets_StaticFirst(secrets, config) == defu(config, secrets)

\* defu(secrets, nuxt.options.runtimeConfig)
mergeSecrets(secrets, config) == defu(secrets, config)

\* the try block of the build-time fetch, with its catch
buildFetch(N, options, resolved, fetched) ==
    IF resolved.status = "thrown"
    THEN catchBuildFetch(did(N, "resolve"), options, <<"MissingIdentifier", resolved.message>>)
    ELSE LET R == [did(did(N, "resolve"), "fetch") EXCEPT
                        !.hasShelveConfig = TRUE, !.shelveConfig = resolved.config]
         IN  IF ~fetched.ok
             THEN catchBuildFetch(R, options, errorText(fetched.error))
             ELSE logTo([did(R, "merge") EXCEPT
                            !.runtimeConfig = mergeSecrets(fetched.secrets, @),
                            !.nitroRuntimeConfig = mergeSecrets(fetched.secrets, @)],
                        "success",
                        <<"Loaded ", String(countConfigKeys(fetched.secrets)),
                          " secrets from Shelve (">> \o resolved.config.environment \o <<")">>)

\* the else branch: resolution only
resolveOnly(N, resolved) ==
    IF resolved.status = "thrown"
    THEN logTo(did(N, "resolve"), "warn",
               <<"Shelve config resolution failed: ", resolved.message>>)
    ELSE [did(N, "resolve") EXCEPT !.hasShelveConfig = TRUE, !.shelveConfig = resolved.config]

\* a variant of embeddedConfig that embeds the resolved config whole
embeddedConfig_Whole(shelveConfig) == shelveConfig

\* configJson: { url, slug, project, environment } of the resolved config
embeddedConfig(shelveConfig) ==
    [url |-> shelveConfig.url, slug |-> shelveConfig.slug,
     project |-> shelveConfig.project, environment |-> shelveConfig.environment]

\* if (shelveOpts.fetchAtRuntime && shelveConfig) { ... }
runtimeFetchPlugin(N, shelveOpts) ==
    IF N.phase # "failed" /\ shelveOpts.fetchAtRuntime /\ N.hasShelveConfig
    THEN registerNitroPlugin(
            [addTemplate(addImportsDir(N, "./runtime/utils"), ShelvePlugin) EXCEPT
                !.embedded = Append(@, embeddedConfig(N.shelveConfig))],
            ShelvePlugin)
    ELSE N

\* shelveOpts.fetchAtBuild !== false
fetchesAtBuild(shelveOpts) == shelveOpts.fetchAtBuild # "false"

\* if (shouldEnableShelve(options.shelve)) { ... }
shelveStage(N, options, resolved, fetched) ==
    IF ~shouldEnableShelve(options.shelve) THEN N
    ELSE LET shelveOpts == normalizeShelveOptions(options.shelve)
         IN  runtimeFetchPlugin(
                IF fetchesAtBuild(shelveOpts)
                THEN buildFetch(N, options, resolved, fetched)
                ELSE resolveOnly(N, resolved),
                shelveOpts)

\* the warnings of getJSONSchema: native says whether the schema converts
\* itself ("works"), fails doing so ("throws") or cannot ("none")
getJSONSchema(N, native, logFallback) ==
    IF native = "works" THEN N
    ELSE LET tried == IF native = "throws" /\ logFallback
                      THEN logTo(N, "warn", <<"Native JSON Schema failed, using fallback">>)
                      ELSE N
         IN  IF logFallback
             THEN logTo(tried, "warn", <<"Schema does not support native JSON Schema, using fallback">>)
             ELSE tried

\* a variant of validatesAtBuild that registers the hooks whatever the option is
validatesAtBuild_Always(options) == TRUE

\* if (options.validateAtBuild)
validatesAtBuild(options) == options.validateAtBuild

\* if (options.validateAtBuild) { nuxt.hook('ready', ...); nuxt.hook('build:done', ...) }
buildHooks(N, options) ==
    IF validatesAtBuild(options)
    THEN hook(hook(N, "ready", ""), "build:done", "")
    ELSE N

\* if (options.validateAtRuntime) { ... }
runtimeValidation(N, options) ==
    IF options.validateAtRuntime
    THEN registerNitroPlugin(
            addTemplate(addTemplate(N, "safe-runtime-config/schema.json"), ValidatePlugin),
            ValidatePlugin)
    ELSE N

\* setup from  if (!options.$schema) return  on
schemaStage(N, options, native) ==
    IF N.phase = "failed" \/ ~options.schema THEN N
    ELSE hook(addImportsDir(
                runtimeValidation(
                    buildHooks(
                        addTemplate(getJSONSchema(N, native, options.logFallback),
                                    "types/safe-runtime-config.d.ts"),
                        options),
                    options),
                "./runtime/composables"),
              "eslint:config:addons", "")

\* setup(options, nuxt)
setup(N, options, resolved, fetched, native) ==
    LET S == schemaStage(shelveStage(N, options, resolved, fetched), options, native)
    IN  IF S.phase = "failed" THEN S ELSE [S EXCEPT !.phase = "modules-done"]

\* the key the schema of this run requires, and what validating a config
\* against it answers
RequiredKey == toCamelCase(KEY)
Valid(config) == <<RequiredKey>> \in DOMAIN config.leaves

schemaValidate(config) ==
    IF Valid(config) THEN Result(FALSE, FALSE, <<>>)
    ELSE Result(FALSE, TRUE, <<Issue(TRUE, <<ObjectSegment("key")>>, <<"Required">>)>>)

\* the hook setup registers for 'ready' (point = "ready") and 'build:done'
validateHook(N, options, point) ==
    IF point = "ready" /\ options.prepare THEN N
    ELSE LET d == validateRuntimeConfig(StandardSchema, schemaValidate(N.nitroRuntimeConfig),
                        [onError |-> options.onBuildError, logSuccess |-> options.logSuccess])
             V == [did(N, "validate:" \o point) EXCEPT !.logs = @ \o d.logs]
         IN  IF d.raised THEN [did(V, "raise") EXCEPT !.phase = "failed"] ELSE V

HasHook(N, name) == \E i \in DOMAIN N.hooks : N.hooks[i].name = name

\* nuxt.callHook(name): the hooks of this module under that name
callHook(N, options, name) == IF HasHook(N, name) THEN validateHook(N, options, name) ELSE N

\* nitroConfig.plugins after the 'nitro:config' hooks have run, in their order
RECURSIVE nitroPlugins(_, _)
nitroPlugins(hooks, i) ==
    IF i > Len(hooks) THEN <<>>
    ELSE IF hooks[i].name = "nitro:config"
         THEN <<hooks[i].plugin>> \o nitroPlugins(hooks, i + 1)
         ELSE nitroPlugins(hooks, i + 1)

\* a variant of pluginOptions that takes the build-time policy
pluginOptions_OnBuildError(options) ==
    [onError |-> options.onBuildError, logSuccess |-> options.logSuccess]

\* const options = { onError: options.onRuntimeError, logSuccess: options.logSuccess }
pluginOptions(options) ==
    [onError |-> options.onRuntimeError, logSuccess |-> options.logSuccess]

\* the generated validate-plugin, with the options embedded in it
runtimeValidate(V, options) ==
    LET msg == <<"Runtime validation failed: ", "#", ": ", "required property">>
        T == [V EXCEPT !.trace = Append(@, "validate")]
    IN  IF ~Valid(V.config)
        THEN IF options.onError = "throw"
             THEN [T EXCEPT !.logs = Append(@, log("error", msg)), !.phase = "failed"]
             ELSE IF options.onError = "warn"
             THEN [T EXCEPT !.logs = Append(@, log("warn", msg))]
             ELSE T
        ELSE IF options.logSuccess
             THEN [T EXCEPT !.logs = Append(@, log("success", <<"Runtime config validated (server start)">>))]
             ELSE T

\* the generated shelve-plugin up to its first await
runtimeFetchStart(V, hasToken) ==
    IF ~hasToken
    THEN [V EXCEPT !.logs = Append(@, log("warn", <<"SHELVE_TOKEN not set, skipping runtime secrets fetch">>)),
                   !.secrets = "done"]
    ELSE [V EXCEPT !.secrets = "fetching", !.trace = Append(@, "request:project")]

\* the requests the shelve-plugin goes on to make after the first, and the
\* rejection that ends them, for what the remote API answers
laterRequests(answer) ==
    IF ~answer.ok /\ answer.at = "project" THEN <<"rejected:project">>
    ELSE IF ~answer.ok /\ answer.at = "environment"
    THEN <<"request:environment", "rejected:environment">>
    ELSE IF ~answer.ok
    THEN <<"request:environment", "request:variables", "rejected:variables">>
    ELSE <<"request:environment", "request:variables">>

\* the generated shelve-plugin from the answers of the remote API on
runtimeFetchEnd(V, answer) ==
    LET D == [V EXCEPT !.secrets = "done", !.trace = @ \o laterRequests(answer),
                       !.listed = IF answer.ok THEN answer.variables ELSE @]
    IN  IF ~answer.ok
        THEN [D EXCEPT !.logs = Append(@, log("error",
                    <<"Failed to fetch Shelve secrets: ", answer.error.message>>))]
        ELSE IF Len(answer.variables) = 0
        THEN [D EXCEPT !.logs = Append(@, log("info", <<"No Shelve variables found">>))]
        ELSE LET secrets == transformEnvVars(answer.variables)
             IN  IF secrets.err
                 THEN [D EXCEPT !.logs = Append(@, log("error",
                            <<"Failed to fetch Shelve secrets: ", "TypeError">>))]
                 ELSE [D EXCEPT !.config = mergeSecrets(secrets, @),
                                !.trace = Append(@, "merge"),
                                !.logs = Append(@, log("success",
                                    <<"Loaded ", String(Len(answer.variables)),
                                      " secrets from Shelve (runtime)">>))]

(***************************************************************************)
(* The runs explored                                                       *)
(***************************************************************************)
ShelveOptions == {
    ShelveOption("undefined", "unset", NoNames, "unset", FALSE),
    ShelveOption("false", "unset", NoNames, "unset", FALSE),
    ShelveOption("true", "unset", NoNames, "unset", FALSE),
    ShelveOption("object", "unset", SomeNames, "unset", FALSE),
    ShelveOption("object", "false", SomeNames, "unset", TRUE),
    ShelveOption("object", "unset", SomeNames, "unset", TRUE),
    ShelveOption("object", "true", NoNames, "false", TRUE),
    ShelveOption("object", "unset", NoNames, "unset", FALSE),                              \* {}
    ShelveOption("object", "unset", [NoNames EXCEPT !.project = <<>>], "unset", FALSE),    \* { project: '' }
    ShelveOption("object", "unset", [NoNames EXCEPT !.team = <<"my-team">>], "unset", FALSE) }

\* process.env and package.json at build time: with and without a token
SetupEnv(token) ==
    [SHELVE_PROJECT |-> Null, SHELVE_TEAM |-> <<"env-team">>, SHELVE_TEAM_SLUG |-> Null,
     SHELVE_ENV |-> Null, SHELVE_URL |-> Null, SHELVE_TOKEN |-> token]
SetupEnvs == {SetupEnv(<<"token1">>), SetupEnv(Null)}
SetupPkg == [exists |-> TRUE, parses |-> TRUE, name |-> <<"pkg-project">>]
SetupRc == [exists |-> FALSE, match |-> Null]

\* what the remote API answers to a fetch
Answer(ok, variables, at, error) == [ok |-> ok, variables |-> variables, at |-> at, error |-> error]
SetupAnswers == {
    Answer(TRUE, <<[key |-> KEY, value |-> 1]>>, "", NetworkError),
    Answer(TRUE, <<[key |-> PUBLIC_ \o <<"X">>, value |-> 1]>>, "", NetworkError),
    Answer(TRUE, <<>>, "", NetworkError),
    Answer(TRUE, <<[key |-> <<"A">>, value |-> 1], [key |-> A_X, value |-> 2]>>, "", NetworkError),
    Answer(FALSE, <<>>, "project", NotFound),
    Answer(FALSE, <<>>, "environment", NetworkError),
    Answer(FALSE, <<>>, "variables", NetworkError) }

\* the static runtime config: empty, or with the required key and others
StaticConfigs == {
    EmptyObject,
    [err |-> FALSE,
     leaves |-> (<<RequiredKey>> :> 0) @@ (<<publicKey, <<"x">>>> :> 0) @@ (<<publicKey, <<"y">>>> :> 0),
     objs |-> {<<>>, <<publicKey>>}] }

ServerOff == [phase |-> "off", config |-> NotRun, plugins |-> <<>>, ran |-> 0,
              secrets |-> "idle", listed |-> <<>>, logs |-> <<>>, trace |-> <<>>]

SetupIdle ==
    /\ sIn = [schema |-> FALSE, validateAtBuild |-> TRUE, validateAtRuntime |-> FALSE,
              onBuildError |-> "throw", onRuntimeError |-> "throw", logSuccess |-> TRUE,
              logFallback |-> TRUE, prepare |-> FALSE,
              shelve |-> ShelveOption("undefined", "unset", NoNames, "unset", FALSE),
              runtimeConfig |-> EmptyObject]
    /\ nuxt = NewNuxt(sIn.runtimeConfig)
    /\ server = ServerOff

SetupInit ==
    /\ \E schema, validateAtBuild, validateAtRuntime, prepare \in BOOLEAN :
       \E onBuildError \in ErrorBehaviors, onRuntimeError \in ErrorBehaviors :
       \E shelve \in ShelveOptions, static \in StaticConfigs, logSuccess \in BOOLEAN :
            sIn = [schema |-> schema, validateAtBuild |-> validateAtBuild,
                   validateAtRuntime |-> validateAtRuntime,
                   onBuildError |-> onBuildError, onRuntimeError |-> onRuntimeError,
                   logSuccess |-> logSuccess, logFallback |-> TRUE, prepare |-> prepare,
                   shelve |-> shelve, runtimeConfig |-> static]
    /\ nuxt = NewNuxt(sIn.runtimeConfig)
    /\ server = ServerOff

\* the host loads the module: setup runs to its end
Setup ==
    /\ nuxt.phase = "init"
    /\ \E env \in SetupEnvs, answer \in SetupAnswers, native \in {"works", "throws", "none"} :
        LET resolved == resolveShelveConfig(
                [options |-> normalizeShelveOptions(sIn.shelve).names, env |-> env,
                 pkg |-> SetupPkg, rc |-> SetupRc, isDev |-> FALSE])
            fetched == IF resolved.status = "returned"
                       THEN fetchOutcome(resolved.config, answer)
                       ELSE [ok |-> FALSE, secrets |-> NotRun, error |-> NoError]
            after == setup(nuxt, sIn, resolved, fetched, native)
        IN  /\ nuxt' = after
            /\ secretsCache' =
                    IF \E i \in DOMAIN after.trace : after.trace[i] = "merge"
                    THEN cacheSet(secretsCache, cacheKeyOf(resolved.config),
                                  [has |-> TRUE, data |-> fetched.secrets,
                                   expires |-> now + CACHE_TTL, writer |-> 0])
                    ELSE secretsCache
    /\ UNCHANGED <<sIn, server>>

\* the host becomes ready: nuxt.callHook('ready')
Ready ==
    /\ nuxt.phase = "modules-done"
    /\ LET after == callHook(nuxt, sIn, "ready")
       IN  nuxt' = IF after.phase = "failed" THEN after ELSE [after EXCEPT !.phase = "ready"]
    /\ UNCHANGED <<sIn, server, secretsCache>>

\* the build completes: nuxt.callHook('build:done')
BuildDone ==
    /\ nuxt.phase = "ready"
    /\ LET after == callHook(nuxt, sIn, "build:done")
       IN  nuxt' = IF after.phase = "failed" THEN after ELSE [after EXCEPT !.phase = "built"]
    /\ UNCHANGED <<sIn, server, secretsCache>>

\* the built server starts with the config and the plugin list of the build
StartServer ==
    /\ nuxt.phase = "built"
    /\ server.phase = "off"
    /\ server' = [server EXCEPT !.phase = "starting", !.config = nuxt.nitroRuntimeConfig,
                                !.plugins = nitroPlugins(nuxt.hooks, 1)]
    /\ UNCHANGED <<sIn, nuxt, secretsCache>>

\* the server calls its next plugin.  A plugin that is an async function
\* returns at its first await; the next plugin may run before or after the
\* rest of it
RunPlugin ==
    /\ server.phase = "starting"
    /\ IF server.ran = Len(server.plugins)
       THEN server' = [server EXCEPT !.phase = "up"]
       ELSE LET plugin == server.plugins[server.ran + 1]
                S == [server EXCEPT !.ran = @ + 1]
            IN  IF plugin = ShelvePlugin
                THEN \E hasToken \in BOOLEAN : server' = runtimeFetchStart(S, hasToken)
                ELSE server' = runtimeValidate(S, pluginOptions(sIn))
    /\ UNCHANGED <<sIn, nuxt, secretsCache>>

\* the remote API has answered the shelve-plugin, which runs to its end
SecretsArrive ==
    /\ server.secrets = "fetching"
    /\ \E answer \in SetupAnswers : server' = runtimeFetchEnd(server, answer)
    /\ UNCHANGED <<sIn, nuxt, secretsCache>>

(***************************************************************************)
(* The type signature of a schema node: jsonSchemaToTs, by the algorithm   *)
(* of the specification's SchemaIntrospector.  A signature is the sequence *)
(* of the pieces of its text.                                              *)
(***************************************************************************)
MaxDepth == 2

\* the nodes: a JSON Schema object by its variant
Primitive(kind, format) == [tag |-> "primitive", kind |-> kind, format |-> format]
TypeList(kinds) == [tag |-> "types", kinds |-> kinds]
Array(hasItems, items) == [tag |-> "array", hasItems |-> hasItems, items |-> items]
Object(properties, additionalProperties) ==
    [tag |-> "object", properties |-> properties, additionalProperties |-> additionalProperties]
Property(name, node, required) == [name |-> name, node |-> node, required |-> required]
Union(members) == [tag |-> "union", members |-> members]
Intersection(members) == [tag |-> "intersection", members |-> members]
Literal(isString, value) == [tag |-> "literal", isString |-> isString, value |-> value]
Enumeration(values) == [tag |-> "enumeration", values |-> values]
Reference == [tag |-> "reference"]
EmptyNode == [tag |-> "empty"]
Unrecognised == [tag |-> "unrecognised"]
\* additionalProperties unset, false, or a node
Unset == [tag |-> "unset"]
False == [tag |-> "false"]

UnknownSignature == <<"unknown">>

\* primitive: the scalar name, integer as number
primitiveSignature(kind) == IF kind = "integer" THEN <<"number">> ELSE <<kind>>

\* const: a string in quotes, any other scalar as it is
literalSignature(isString, value) ==
    IF isString THEN <<"\"" \o value \o "\"">> ELSE <<value>>

\* a property name that is no bare identifier is quoted
propertyName(name, isIdentifier) == IF isIdentifier THEN name ELSE "\"" \o name \o "\""

RECURSIVE toTypeSignature(_)
toTypeSignature(node) ==
    CASE node.tag = "primitive" -> primitiveSignature(node.kind)
      [] node.tag = "types" ->
            join([i \in DOMAIN node.kinds |-> primitiveSignature(node.kinds[i])], " | ")
      [] node.tag = "array" ->
            IF node.hasItems THEN toTypeSignature(node.items) \o <<"[]">>
            ELSE <<"unknown[]">>
      [] node.tag = "object" ->
            IF Len(node.properties) > 0
            THEN <<"{ ">>
                    \o join([i \in DOMAIN node.properties |->
                                <<propertyName(node.properties[i].name.text,
                                               node.properties[i].name.isIdentifier),
                                  IF node.properties[i].required THEN ": " ELSE "?: ">>
                                    \o toTypeSignature(node.properties[i].node)], "; ")
                    \o <<" }">>
            ELSE IF node.additionalProperties.tag = "unset" THEN <<"Record<string, unknown>">>
            ELSE IF node.additionalProperties.tag = "false" THEN <<"Record<string, never>">>
            ELSE <<"Record<string, ">> \o toTypeSignature(node.additionalProperties) \o <<">">>
      [] node.tag = "union" ->
            join([i \in DOMAIN node.members |-> toTypeSignature(node.members[i])], " | ")
      [] node.tag = "intersection" ->
            join([i \in DOMAIN node.members |-> toTypeSignature(node.members[i])], " & ")
      [] node.tag = "literal" -> literalSignature(node.isString, node.value)
      [] node.tag = "enumeration" ->
            join([i \in DOMAIN node.values |->
                    literalSignature(node.values[i].isString, node.values[i].value)], " | ")
      [] OTHER -> UnknownSignature

\* the nodes explored: the leaves, and every variant built on the nodes one
\* level below
PrimitiveKinds == {"string", "number", "integer", "boolean", "null"}
Leaves ==
    {Primitive(kind, format) : kind \in PrimitiveKinds, format \in {"", "email"}}
        \cup {TypeList(<<"string", "null">>), TypeList(<<"integer", "number">>),
              Array(FALSE, EmptyNode), Object(<<>>, Unset), Object(<<>>, False),
              Literal(TRUE, "hello"), Literal(FALSE, "42"),
              Enumeration(<<Literal(TRUE, "active"), Literal(FALSE, "1"), Literal(FALSE, "null")>>),
              Union(<<>>), Enumeration(<<>>), Reference, EmptyNode, Unrecognised}

Name(text, isIdentifier) == [text |-> text, isIdentifier |-> isIdentifier]

RECURSIVE Nodes(_)
Nodes(depth) ==
    IF depth = 0 THEN Leaves
    ELSE LET below == Nodes(depth - 1)
         IN  Leaves
                \cup {Array(TRUE, n) : n \in below}
                \cup {Object(<<>>, n) : n \in below}
                \cup {Object(<<Property(Name("name", TRUE), n, TRUE),
                               Property(Name("valid-key", FALSE), Primitive("number", ""), FALSE)>>,
                             Unset) : n \in below}
                \cup {Union(<<n, Primitive("null", "")>>) : n \in below}
                \cup {Intersection(<<Object(<<>>, Unset), n>>) : n \in below}

NotConverted == [status |-> "none", signature |-> <<>>]

TypesIdle == nIn = EmptyNode /\ nOut = NotConverted

TypesInit ==
    /\ \E depth \in 0..MaxDepth : \E node \in Nodes(depth) : nIn = node
    /\ nOut = NotConverted

\* the call jsonSchemaToTs(nIn)
Convert ==
    /\ nOut.status = "none"
    /\ nOut' = [status |-> "done", signature |-> toTypeSignature(nIn)]
    /\ UNCHANGED nIn

(***************************************************************************)
(* Specifications                                                          *)
(***************************************************************************)
FetchIdle == secretsCache = <<>> /\ now = 0 /\ calls = [c \in Calls |-> IdleCall]
ResolveIdle == rIn = [options |-> NoConfig, env |-> NoConfig, pkg |-> NoConfig,
                      rc |-> NoConfig, isDev |-> FALSE]
               /\ rOut = NotResolved
TransformIdle == tVars = <<>> /\ tOut = NotRun /\ wOut = NotRun
ValidateIdle == vIn = [schema |-> StandardSchema, result |-> Result(FALSE, FALSE, <<>>),
                       opts |-> [onError |-> "throw", logSuccess |-> TRUE]]
                /\ vOut = NotValidated

IdleButFetch == ResolveIdle /\ TransformIdle /\ ValidateIdle /\ SetupIdle /\ TypesIdle

Init == FetchInit /\ IdleButFetch

U == UNCHANGED <<resolveVars, transformVars, validateVars, setupVars, typeVars>>

Next ==
    \/ \E c \in Calls, config \in FConfigs, useCache \in BOOLEAN :
            Start(c, config, useCache) /\ U
    \/ \E c \in Calls : ProjectResponse(c, FewAnswers) /\ U
    \/ \E c \in Calls : EnvironmentResponse(c, FewAnswers) /\ U
    \/ \E c \in Calls : VariablesResponse(c, FewAnswers) /\ U
    \/ Tick /\ U
    \/ clearSecretsCache /\ U

\* the secrets client and its cache: two fetchShelveSecrets calls in every
\* interleaving, the clock, clearSecretsCache
Spec == Init /\ [][Next]_vars

CallNext ==
    \/ \E config \in FConfigs, useCache \in BOOLEAN : Start(1, config, useCache) /\ U
    \/ ProjectResponse(1, AllAnswers) /\ U
    \/ EnvironmentResponse(1, AllAnswers) /\ U
    \/ VariablesResponse(1, AllAnswers) /\ U

\* one fetchShelveSecrets call against every answer of the remote API
SpecCall == Init /\ [][CallNext]_vars

ResolveSpecInit == ResolveInit /\ FetchIdle /\ TransformIdle /\ ValidateIdle /\ SetupIdle /\ TypesIdle
ResolveNext == Resolve /\ UNCHANGED <<fetchVars, transformVars, validateVars, setupVars, typeVars>>

\* one resolveShelveConfig call on every input
SpecResolve == ResolveSpecInit /\ [][ResolveNext]_vars

TransformSpecInit == TransformInit /\ FetchIdle /\ ResolveIdle /\ ValidateIdle /\ SetupIdle /\ TypesIdle
TransformNext == Transform /\ UNCHANGED <<fetchVars, resolveVars, validateVars, setupVars, typeVars>>

\* one transformEnvVars call on every input
SpecTransform == TransformSpecInit /\ [][TransformNext]_vars

ValidateSpecInit == ValidateInit /\ FetchIdle /\ ResolveIdle /\ TransformIdle /\ SetupIdle /\ TypesIdle
ValidateNext == Validate /\ UNCHANGED <<fetchVars, resolveVars, transformVars, setupVars, typeVars>>

\* one validateRuntimeConfig call on every schema, answer and option
SpecValidate == ValidateSpecInit /\ [][ValidateNext]_vars

SetupSpecInit == SetupInit /\ FetchIdle /\ ResolveIdle /\ TransformIdle /\ ValidateIdle /\ TypesIdle
US == UNCHANGED <<now, calls, resolveVars, transformVars, validateVars, typeVars>>
SetupNext ==
    \/ Setup /\ US
    \/ Ready /\ US
    \/ BuildDone /\ US
    \/ StartServer /\ US
    \/ RunPlugin /\ US
    \/ SecretsArrive /\ US

\* one run of the module: setup, the host's ready and build:done, then the
\* server started from the build with its plugins
SpecSetup == SetupSpecInit /\ [][SetupNext]_vars

StructureSpecInit ==
    StructureInit /\ FetchIdle /\ ResolveIdle /\ ValidateIdle /\ SetupIdle /\ TypesIdle
StructureNext ==
    \/ Transform /\ UNCHANGED <<fetchVars, resolveVars, validateVars, setupVars, typeVars>>
    \/ Structure /\ UNCHANGED <<fetchVars, resolveVars, validateVars, setupVars, typeVars>>

\* transformEnvVars and the wizard's transformKeysToStructure on the same keys
SpecStructure == StructureSpecInit /\ [][StructureNext]_vars

TypesSpecInit ==
    TypesInit /\ FetchIdle /\ ResolveIdle /\ TransformIdle /\ ValidateIdle /\ SetupIdle
TypesNext ==
    Convert /\ UNCHANGED <<fetchVars, resolveVars, transformVars, validateVars, setupVars>>

\* one jsonSchemaToTs call on every node
SpecTypes == TypesSpecInit /\ [][TypesNext]_vars


(***************************************************************************)
(* Properties of the secrets client and its cache                          *)
(***************************************************************************)
Started(c) == calls[c].pc # "idle"

\* the remote calls a call has issued
RequestsOf(c) == SelectSeq(calls[c].trace, LAMBDA e : e.t = "request")
NRequests(c) == Len(RequestsOf(c))

\* the entry under the call's key was live when the call started
SawLiveEntry(c) == calls[c].seen.has /\ calls[c].startNow < calls[c].seen.expires

\* c2 started after c1 had completed and stored its result, with c1's entry
\* still the one under the key and not yet expired
StartedOnEntryOf(c2, c1) ==
    /\ c1 # c2
    /\ Started(c2)
    /\ SawLiveEntry(c2)
    /\ calls[c2].seen.writer = c1

\* C1: of two useCache=true calls with the same resolved config, the second
\* starting after the first completed and before the first's entry expires, the
\* second issues no remote call and returns the data the first returned, so the
\* two together issue at most one call triple.
C1_CachedWithinTtl ==
    \A c1, c2 \in Calls :
        ( /\ StartedOnEntryOf(c2, c1)
          /\ calls[c1].useCache /\ calls[c2].useCache
          /\ calls[c1].config = calls[c2].config )
        => /\ calls[c2].pc = "done"
           /\ NRequests(c2) = 0
           /\ NRequests(c1) + NRequests(c2) <= 3
           /\ calls[c1].pc = "done"
           /\ calls[c2].out = calls[c1].out

C1_Witness ==
    \E c1, c2 \in Calls :
        /\ StartedOnEntryOf(c2, c1)
        /\ calls[c1].useCache /\ calls[c2].useCache
        /\ calls[c1].config = calls[c2].config
        /\ calls[c2].startNow > 0
        /\ calls[c2].pc = "done"

\* the step is one of call c, made with useCache = false
StepOfUncached(c) == calls'[c] # calls[c] /\ ~calls'[c].useCache

\* C2 as stated: a useCache=false call issues its remote calls whatever the
\* cache holds, and no step of it changes the cache.
C2_Original ==
    /\ [](\A c \in Calls : (Started(c) /\ ~calls[c].useCache) => NRequests(c) >= 1)
    /\ [][\A c \in Calls : StepOfUncached(c) => secretsCache' = secretsCache]_vars

\* C2 amended: a useCache=false call never reads the cache (it issues the
\* project lookup whatever the cache holds, and all three calls when it
\* completes), but when it completes it stores its result under its key with a
\* fresh expiry, as a cached call does; every other entry, and the cache on
\* every other step of the call, stay as they were.
C2_UncachedReadsNothingButWrites ==
    /\ [](\A c \in Calls : (Started(c) /\ ~calls[c].useCache) =>
            /\ NRequests(c) >= 1
            /\ calls[c].pc = "done" => NRequests(c) = 3)
    /\ [][\A c \in Calls : StepOfUncached(c) =>
            IF calls'[c].pc = "done"
            THEN /\ DOMAIN secretsCache' = DOMAIN secretsCache \cup {cacheKeyOf(calls[c].config)}
                 /\ secretsCache'[cacheKeyOf(calls[c].config)] =
                        [has |-> TRUE, data |-> calls'[c].out,
                         expires |-> now + CACHE_TTL, writer |-> c]
                 /\ \A k \in DOMAIN secretsCache :
                        k # cacheKeyOf(calls[c].config) => secretsCache'[k] = secretsCache[k]
            ELSE secretsCache' = secretsCache]_vars

\* a useCache=false call has completed although a live entry was under its
\* key when it started, and the entry now holds what it fetched
C2_Witness ==
    \E c \in Calls :
        /\ ~calls[c].useCache
        /\ calls[c].pc = "done"
        /\ SawLiveEntry(c)
        /\ cacheGet(secretsCache, cacheKeyOf(calls[c].config)).writer = c
        /\ calls[c].out # calls[c].seen.data

DifferOnlyInToken(a, b) ==
    /\ a.token # b.token
    /\ [a EXCEPT !.token = b.token] = b

\* C3 as stated: a useCache=true call never short-circuits on an entry stored
\* by a useCache=true call whose config differs from its own only in the token.
C3_Original ==
    \A c1, c2 \in Calls :
        ( /\ c1 # c2
          /\ Started(c1) /\ Started(c2)
          /\ calls[c1].useCache /\ calls[c2].useCache
          /\ DifferOnlyInToken(calls[c1].config, calls[c2].config) )
        => /\ ~(SawLiveEntry(c2) /\ calls[c2].seen.writer = c1 /\ NRequests(c2) = 0)
           /\ NRequests(c2) >= 1


\* the entry under the call's key, if any, had expired when the call started
SawExpiredEntry(c) == calls[c].seen.has /\ calls[c].seen.expires <= calls[c].startNow

\* the variables the remote API listed to the call
Listed(c) == calls[c].trace[Len(calls[c].trace)].body

Fetched(c) == calls[c].pc = "done" /\ NRequests(c) >= 1

\* call c completes its fetch in this step
Completes(c) == calls[c].pc = "variables" /\ calls'[c].pc = "done"

FreshEntry(c) ==
    [has |-> TRUE, data |-> calls'[c].out, expires |-> now + CACHE_TTL, writer |-> c]

\* C23: a cache entry is never served at or after its expiry: a useCache=true
\* call started when the entry under its key has expires <= now issues the
\* three remote calls, returns the newly fetched data and overwrites the entry
\* with that data and the expiry now + CACHE_TTL; a call is served from the
\* cache only by an entry with expires > now; every successful fetch stores
\* the entry with a fresh expiry
C23_NeverServedExpired ==
    /\ [](\A c \in Calls :
            /\ (Started(c) /\ calls[c].useCache /\ SawExpiredEntry(c)) =>
                    /\ NRequests(c) >= 1
                    /\ calls[c].pc = "done" =>
                            NRequests(c) = 3 /\ calls[c].out = transformEnvVars(Listed(c))
            /\ (calls[c].pc = "done" /\ NRequests(c) = 0) =>
                    /\ calls[c].seen.has
                    /\ calls[c].seen.expires > calls[c].startNow
                    /\ calls[c].out = calls[c].seen.data)
    /\ [][\A c \in Calls : Completes(c) =>
            /\ secretsCache'[cacheKeyOf(calls[c].config)] = FreshEntry(c)
            /\ secretsCache'[cacheKeyOf(calls[c].config)].expires > now]_vars

C23_Witness ==
    \E c \in Calls :
        /\ calls[c].useCache /\ SawExpiredEntry(c)
        /\ calls[c].seen.expires = calls[c].startNow
        /\ calls[c].pc = "done"
        /\ cacheGet(secretsCache, cacheKeyOf(calls[c].config)).writer = c
        /\ cacheGet(secretsCache, cacheKeyOf(calls[c].config)).expires
                = calls[c].seen.expires + CACHE_TTL

InFlight(c) == calls[c].pc \in {"project", "environment", "variables"}
SameKey(c, d) == cacheKeyOf(calls[c].config) = cacheKeyOf(calls[d].config)

\* the requests of call c are its own: to its url, with its names and token
OwnRequests(c) ==
    \A i \in DOMAIN RequestsOf(c) :
        /\ RequestsOf(c)[i].url = calls[c].config.url
        /\ RequestsOf(c)[i].slug = calls[c].config.slug
        /\ RequestsOf(c)[i].cookie = calls[c].config.token

\* C24: two useCache=true calls for the same key that both start before
\* either completes each miss the cache and each issue their own three remote
\* calls; the call that completes stores its entry over whatever the key
\* holds, so once both have completed the key's one entry carries the data
\* and expiry of the call that completed last; the data a call returns is
\* what it fetched itself or what a call with the same key stored
C24_ConcurrentCalls ==
    /\ [](\A c, d \in Calls :
            (c # d /\ calls[c].useCache /\ calls[d].useCache /\ SameKey(c, d)) =>
                /\ (InFlight(c) /\ InFlight(d)) =>
                        NRequests(c) >= 1 /\ NRequests(d) >= 1
                /\ (Fetched(c) /\ Fetched(d)) =>
                        /\ NRequests(c) = 3 /\ NRequests(d) = 3
                        /\ OwnRequests(c) /\ OwnRequests(d)
                        /\ secretsCache # <<>> =>
                                /\ DOMAIN secretsCache = {cacheKeyOf(calls[c].config)}
                                /\ \E last \in {c, d} :
                                        /\ secretsCache[cacheKeyOf(calls[c].config)].writer = last
                                        /\ secretsCache[cacheKeyOf(calls[c].config)].data
                                                = calls[last].out)
    /\ [](\A c \in Calls : calls[c].pc = "done" =>
            \/ NRequests(c) = 3 /\ calls[c].out = transformEnvVars(Listed(c))
            \/ /\ NRequests(c) = 0
               /\ calls[c].seen.writer \in Calls \ {c}
               /\ SameKey(c, calls[c].seen.writer)
               /\ calls[c].out = calls[calls[c].seen.writer].out)
    /\ [][\A c, d \in Calls :
            (c # d /\ Completes(c) /\ calls[d].pc # "idle" /\ SameKey(c, d)) =>
                /\ secretsCache'[cacheKeyOf(calls[c].config)] = FreshEntry(c)
                /\ DOMAIN secretsCache' = {cacheKeyOf(calls[c].config)}]_vars

\* both calls fetched under one key, and the one that started first stored last
C24_Witness ==
    /\ calls[1].useCache /\ calls[2].useCache /\ SameKey(1, 2)
    /\ Fetched(1) /\ Fetched(2)
    /\ calls[1].out # calls[2].out
    /\ cacheGet(secretsCache, cacheKeyOf(calls[1].config)).writer = 1
    /\ cacheGet(secretsCache, cacheKeyOf(calls[1].config)).data = calls[1].out

DifferOnlyInUrl(a, b) ==
    /\ a.url # b.url
    /\ [a EXCEPT !.url = b.url] = b

\* the identity of a cache entry: slug, project, environment and token digest
Identity(config) ==
    <<config.slug, config.project, config.environment, tokenHash(config.token)>>

\* C28: the cache identity ignores the url: a useCache=true call whose config
\* differs only in url from the config of the call that stored the live
\* entry issues no remote call and returns the data fetched from the first
\* endpoint; a call is served from the cache exactly when a call of the same
\* slug, project, environment and token digest stored an entry that is
\* still there and has expires > now
C28_UrlIgnored ==
    /\ [][\A c1, c2 \in Calls :
            ( /\ c1 # c2
              /\ calls[c2].pc = "idle" /\ calls'[c2].pc # "idle" /\ calls'[c2].useCache
              /\ Fetched(c1)
              /\ Identity(calls[c1].config) = Identity(calls'[c2].config)
              /\ \E k \in DOMAIN secretsCache :
                    secretsCache[k].writer = c1 /\ secretsCache[k].expires > now )
            => /\ calls'[c2].pc = "done"
               /\ calls'[c2].trace = <<>>
               /\ calls'[c2].out = calls[c1].out
               /\ \A i \in DOMAIN RequestsOf(c1) : RequestsOf(c1)[i].url = calls[c1].config.url]_vars
    /\ [](\A c \in Calls :
            (Started(c) /\ calls[c].useCache) =>
                /\ NRequests(c) = 0 <=>
                        (calls[c].seen.has /\ calls[c].seen.expires > calls[c].startNow)
                /\ calls[c].seen.has =>
                        /\ calls[c].seen.writer \in Calls \ {c}
                        /\ Identity(calls[calls[c].seen.writer].config) = Identity(calls[c].config))

C28_Witness ==
    /\ DifferOnlyInUrl(calls[1].config, calls[2].config)
    /\ Fetched(1) /\ calls[2].useCache
    /\ calls[2].pc = "done" /\ NRequests(2) = 0
    /\ calls[2].out = calls[1].out

\* call c fails in this step
Fails(c) == calls[c].pc # "failed" /\ calls'[c].pc = "failed"

\* the answer that made the call fail
Refusal(c) == calls[c].trace[Len(calls[c].trace)]

\* C29: when one of the three remote calls of fetchShelveSecrets fails the
\* call raises (a failure of the variable listing as it came, unwrapped) and
\* the cache stays exactly as it was: no entry is created, and an entry
\* under the key, expired or not, is neither removed, overwritten nor
\* re-timed; entries are removed only by clearSecretsCache, which empties
\* the whole cache
C29_FailureLeavesCache ==
    /\ [](\A c \in Calls : calls[c].pc = "failed" =>
            /\ calls[c].error # NoError
            /\ calls[c].out = NotRun
            /\ (~Refusal(c).ok /\ Refusal(c).endpoint = "variables") =>
                    /\ NRequests(c) = 3
                    /\ calls[c].error.message = Refusal(c).error.message
                    /\ calls[c].error.statusCode = Refusal(c).error.statusCode
                    /\ calls[c].error.kind = "Rejected")
    /\ [][\A c \in Calls : Fails(c) => secretsCache' = secretsCache]_vars
    /\ [][(\E k \in DOMAIN secretsCache : k \notin DOMAIN secretsCache')
            => (secretsCache' = <<>> /\ calls' = calls /\ now' = now)]_vars

C29_Witness ==
    \E c \in Calls :
        /\ calls[c].pc = "failed"
        /\ ~Refusal(c).ok /\ Refusal(c).endpoint = "variables"
        /\ SawExpiredEntry(c)
        /\ cacheGet(secretsCache, cacheKeyOf(calls[c].config)) = calls[c].seen

(***************************************************************************)
(* Properties of one fetchShelveSecrets call                               *)
(***************************************************************************)
\* the i-th event of call c is a request to / the answer of the endpoint
IsRequest(c, i, endpoint) ==
    calls[c].trace[i].t = "request" /\ calls[c].trace[i].endpoint = endpoint
IsAnswer(c, i, endpoint, ok) ==
    /\ calls[c].trace[i].t = "response"
    /\ calls[c].trace[i].endpoint = endpoint
    /\ calls[c].trace[i].ok = ok

Events(c) == DOMAIN calls[c].trace

\* C4: in a call that misses the cache, the project lookup comes first, the
\* environment lookup is issued only after the project lookup resolved, the
\* variable listing only after both resolved and with the ids they returned,
\* and the variables are transformed only after the listing resolved.
C4_StrictOrder ==
    \A c \in Calls :
        /\ \A i \in Events(c) :
            /\ IsRequest(c, i, "project") => i = 1
            /\ IsRequest(c, i, "environment") =>
                    \E j \in 1..(i - 1) : IsAnswer(c, j, "project", TRUE)
            /\ IsRequest(c, i, "variables") =>
                    \E j, k \in 1..(i - 1) :
                        /\ j < k
                        /\ IsAnswer(c, j, "project", TRUE)
                        /\ IsAnswer(c, k, "environment", TRUE)
                        /\ calls[c].trace[i].projectId = calls[c].trace[j].id
                        /\ calls[c].trace[i].environmentId = calls[c].trace[k].id
        /\ (NRequests(c) > 0 /\ (calls[c].out # NotRun \/ calls[c].error.kind = "TypeError")) =>
                /\ NRequests(c) = 3
                /\ IsAnswer(c, Len(calls[c].trace), "variables", TRUE)
                /\ calls[c].pc \in {"done", "failed"}

C4_Witness ==
    \E c \in Calls :
        /\ calls[c].pc = "done"
        /\ NRequests(c) = 3
        /\ calls[c].projectId # calls[c].environmentId
        /\ calls[c].out # NotRun

NotFoundStatus(error) == error.statusCode = 404 \/ error.statusCode = 400

\* call c has issued a request to the endpoint
Issued(c, endpoint) == \E i \in Events(c) : IsRequest(c, i, endpoint)

\* C5: when the project lookup fails, the call fails, with ProjectNotFound
\* naming the project and the team slug if the failure carries status 404 or
\* 400 and with FetchFailed carrying the underlying message otherwise, and
\* neither the environment lookup nor the variable listing is issued.
C5_ProjectFailure ==
    \A c \in Calls : \A i \in Events(c) :
        IsAnswer(c, i, "project", FALSE) =>
            /\ calls[c].pc = "failed"
            /\ i = Len(calls[c].trace)
            /\ ~Issued(c, "environment") /\ ~Issued(c, "variables")
            /\ IF NotFoundStatus(calls[c].trace[i].error)
               THEN /\ calls[c].error.kind = "ProjectNotFound"
                    /\ calls[c].error.names = <<calls[c].config.project, calls[c].config.slug>>
               ELSE /\ calls[c].error.kind = "FetchFailed"
                    /\ calls[c].error.message = calls[c].trace[i].error.message

C5_Witness ==
    \E c \in Calls :
        /\ calls[c].pc = "failed"
        /\ IsAnswer(c, Len(calls[c].trace), "project", FALSE)
        /\ calls[c].trace[Len(calls[c].trace)].error.statusCode = 400
        /\ calls[c].error.kind = "ProjectNotFound"

\* C6 as stated: a failed environment lookup raises EnvironmentNotFound only
\* for a not-found / bad-request answer and FetchFailed with the underlying
\* message for any other failure; the variable listing is not issued.
C6_Original ==
    \A c \in Calls : \A i \in Events(c) :
        IsAnswer(c, i, "environment", FALSE) =>
            /\ ~Issued(c, "variables")
            /\ calls[c].error.kind = "EnvironmentNotFound" =>
                    NotFoundStatus(calls[c].trace[i].error)
            /\ ~NotFoundStatus(calls[c].trace[i].error) =>
                    /\ calls[c].error.kind = "FetchFailed"
                    /\ calls[c].error.message = calls[c].trace[i].error.message

\* C6 amended: every failure of the environment lookup, whatever its status
\* and also without one, raises EnvironmentNotFound naming the environment and
\* carrying the underlying message, never FetchFailed; EnvironmentNotFound is
\* raised by nothing else; the variable listing is not issued.
C6_EnvironmentFailure ==
    \A c \in Calls :
        /\ \A i \in Events(c) :
            IsAnswer(c, i, "environment", FALSE) =>
                /\ calls[c].pc = "failed"
                /\ i = Len(calls[c].trace)
                /\ ~Issued(c, "variables")
                /\ calls[c].error.kind = "EnvironmentNotFound"
                /\ calls[c].error.names = <<calls[c].config.environment>>
                /\ calls[c].error.message = calls[c].trace[i].error.message
        /\ calls[c].error.kind = "EnvironmentNotFound" =>
                IsAnswer(c, Len(calls[c].trace), "environment", FALSE)

\* the environment lookup failed without a status (a transport failure)
C6_Witness ==
    \E c \in Calls :
        /\ calls[c].pc = "failed"
        /\ IsAnswer(c, Len(calls[c].trace), "environment", FALSE)
        /\ calls[c].trace[Len(calls[c].trace)].error = NetworkError
        /\ calls[c].error.kind = "EnvironmentNotFound"


(***************************************************************************)
(* Properties of resolveShelveConfig                                       *)
(***************************************************************************)
\* a source is present when it is set, and not to the empty string
Present(x) == x # Null /\ x # <<>>

\* package.json gives a name / the rc file gives a token
PkgNamed == rIn.pkg.exists /\ rIn.pkg.parses /\ Present(rIn.pkg.name)
RcHasToken == rIn.rc.exists /\ rIn.rc.match # Null /\ \E i \in DOMAIN rIn.rc.match : rIn.rc.match[i] # " "

\* s is u followed by slashes only, and u does not end with a slash
StrippedOf(u, s) ==
    /\ \E n \in 0..Len(s) : Len(u) + n = Len(s) /\ s = u \o [i \in 1..n |-> "/"]
    /\ (u = <<>> \/ u[Len(u)] # "/")

\* the rc file's token, without the blanks around it
RcToken == SelectSeq(rIn.rc.match, LAMBDA a : a # " ")

\* C7: every field of the returned config comes from the first present source
\* in its order: option, environment variable, then the default (package.json
\* name for the project, development/production for the environment, the
\* default url); slug, team, SHELVE_TEAM, SHELVE_TEAM_SLUG for the team slug;
\* SHELVE_TOKEN, then the rc file for the credential.
C7_Precedence ==
    rOut.status = "returned" =>
        LET o == rIn.options
            e == rIn.env
            r == rOut.config
        IN  /\ r.project = (IF Present(o.project) THEN o.project
                            ELSE IF Present(e.SHELVE_PROJECT) THEN e.SHELVE_PROJECT
                            ELSE rIn.pkg.name)
            /\ r.slug = (IF Present(o.slug) THEN o.slug
                         ELSE IF Present(o.team) THEN o.team
                         ELSE IF Present(e.SHELVE_TEAM) THEN e.SHELVE_TEAM
                         ELSE e.SHELVE_TEAM_SLUG)
            /\ r.environment = (IF Present(o.environment) THEN o.environment
                                ELSE IF Present(e.SHELVE_ENV) THEN e.SHELVE_ENV
                                ELSE IF rIn.isDev THEN <<"development">>
                                ELSE <<"production">>)
            /\ StrippedOf(r.url, IF Present(o.url) THEN o.url
                                 ELSE IF Present(e.SHELVE_URL) THEN e.SHELVE_URL
                                 ELSE <<"https://app.shelve.cloud">>)
            /\ r.token = (IF Present(e.SHELVE_TOKEN) THEN e.SHELVE_TOKEN ELSE RcToken)

\* every source of the project, the url and the credential is present at once
C7_Witness ==
    /\ rOut.status = "returned"
    /\ Present(rIn.options.project) /\ Present(rIn.env.SHELVE_PROJECT) /\ PkgNamed
    /\ Present(rIn.options.url) /\ Present(rIn.env.SHELVE_URL)
    /\ Present(rIn.env.SHELVE_TOKEN) /\ RcHasToken
    /\ ~Present(rIn.options.slug) /\ Present(rIn.options.team) /\ Present(rIn.env.SHELVE_TEAM)

NoProject == ~Present(rIn.options.project) /\ ~Present(rIn.env.SHELVE_PROJECT) /\ ~PkgNamed
NoSlug == /\ ~Present(rIn.options.slug) /\ ~Present(rIn.options.team)
          /\ ~Present(rIn.env.SHELVE_TEAM) /\ ~Present(rIn.env.SHELVE_TEAM_SLUG)
NoToken == ~Present(rIn.env.SHELVE_TOKEN) /\ ~RcHasToken

\* C8: the call throws exactly when no source gives the project, the team slug
\* or the credential; the message is that of the first missing one in the order
\* project, team slug, credential; a returned config has all three non-empty;
\* the environment and the url play no part in failing.
C8_MissingIdentifier ==
    rOut.status # "none" =>
        /\ rOut.status = "thrown" <=> (NoProject \/ NoSlug \/ NoToken)
        /\ rOut.status = "thrown" =>
                rOut.message = (IF NoProject THEN ProjectRequired
                                ELSE IF NoSlug THEN SlugRequired
                                ELSE TokenRequired)
        /\ rOut.status = "returned" =>
                /\ Present(rOut.config.project)
                /\ Present(rOut.config.slug)
                /\ Present(rOut.config.token)

\* all three are missing and the project is the one reported
C8_Witness ==
    /\ rOut.status = "thrown"
    /\ NoProject /\ NoSlug /\ NoToken
    /\ rOut.message = ProjectRequired


(***************************************************************************)
(* Properties of transformEnvVars                                          *)
(***************************************************************************)
\* the call has run, and has returned an object
TRan == tOut # NotRun

TReturned == TRan /\ ~tOut.err

TEntries == DOMAIN tVars

IsPublicKey(key) == startsWith(key, PUBLIC_) \/ startsWith(key, NUXT_PUBLIC_)

DistinctKeys == \A i, j \in TEntries : i # j => tVars[i].key # tVars[j].key

\* the entries whose key has the grouping prefix p (the part before its first '_')
WithPrefix(p) == {i \in TEntries : getPrefix(tVars[i].key) = p}

\* the non-empty grouping prefixes of the input
InputPrefixes == {getPrefix(tVars[i].key) : i \in TEntries} \ {Null, <<>>}

\* the prefixes no public key has: their entries are all bound for the top level
TopLevelPrefixes == {p \in InputPrefixes : \A i \in WithPrefix(p) : ~IsPublicKey(tVars[i].key)}

\* the part of a key after its prefix and the separator
AfterPrefix(key) == slice(key, Len(getPrefix(key)) + 1)

\* there is a nested object at the path
IsGroup(path) == path \in tOut.objs

\* what a nested object holds: its leaves, each with its value
GroupContent(path) == {<<q, tOut.leaves[q]>> : q \in {r \in DOMAIN tOut.leaves : IsUnder(r, path)}}

\* the entries of I, each under the camel-cased rest of its key, in the group
\* named by the camel-cased prefix p
AsGroup(p, I) ==
    {<<(<<toCamelCase(p), toCamelCase(AfterPrefix(tVars[i].key))>>), tVars[i].value>> : i \in I}

\* C9 as stated, read in its favour (the keys of the input are distinct, and
\* only the prefixes that no PUBLIC_ or NUXT_PUBLIC_ key has are looked at):
\* once transformEnvVars has run, a prefix of exactly one entry has given no
\* nested group, and a prefix of two or more entries has given one nested
\* group, under the camel-cased prefix, that holds all and only those entries.
C9_Original ==
    (TRan /\ DistinctKeys) =>
        \A p \in TopLevelPrefixes :
            /\ Cardinality(WithPrefix(p)) = 1 => ~IsGroup(<<toCamelCase(p)>>)
            /\ Cardinality(WithPrefix(p)) >= 2 =>
                    /\ ~tOut.err
                    /\ IsGroup(<<toCamelCase(p)>>)
                    /\ GroupContent(<<toCamelCase(p)>>) = AsGroup(p, WithPrefix(p))

HasLower(key) == \E i \in DOMAIN key : IsLower(key[i])

\* the keys are distinct, hold no lower-case letter, and none without a
\* separator is the prefix of another
PlainKeys ==
    /\ DistinctKeys
    /\ \A i \in TEntries : ~HasLower(tVars[i].key)
    /\ \A i, j \in TEntries : tVars[i].key # getPrefix(tVars[j].key)

\* a public key without its PUBLIC_ or NUXT_PUBLIC_
Stripped(key) == IF startsWith(key, PUBLIC_) THEN slice(key, 7) ELSE slice(key, 12)

PublicEntries == {i \in TEntries : IsPublicKey(tVars[i].key)}

\* the public entries whose stripped key has the grouping prefix q
PublicWithPrefix(q) == {i \in PublicEntries : getPrefix(Stripped(tVars[i].key)) = q}

PublicPrefixes == {getPrefix(Stripped(tVars[i].key)) : i \in PublicEntries} \ {Null, <<>>}

\* C10 as stated, read in its favour (the call has returned, on keys that
\* are distinct, upper-case, and none the prefix of another): every public
\* key lands under public, and there the grouping rule applies again on the
\* stripped keys: a sub-prefix of two or more public keys gives a nested
\* group under public that holds them, a sub-prefix of one public key gives
\* none.
C10_Original ==
    (TReturned /\ PlainKeys) =>
        /\ PublicEntries # {} => IsGroup(<<publicKey>>)
        /\ \A q \in PublicPrefixes :
            /\ Cardinality(PublicWithPrefix(q)) >= 2 =>
                    /\ IsGroup(<<publicKey, toCamelCase(q)>>)
                    /\ \A i \in PublicWithPrefix(q) :
                            LET path == <<publicKey, toCamelCase(q),
                                          toCamelCase(AfterPrefix(Stripped(tVars[i].key)))>>
                            IN  path \in DOMAIN tOut.leaves /\ tOut.leaves[path] = tVars[i].value
            /\ Cardinality(PublicWithPrefix(q)) = 1 => ~IsGroup(<<publicKey, toCamelCase(q)>>)


\* the public entries whose stripped key folds to the same property as entry i's
SamePublicProperty(i) ==
    {j \in PublicEntries :
        toCamelCase(Stripped(tVars[j].key)) = toCamelCase(Stripped(tVars[i].key))}

\* the last entry of a non-empty set of entries
LastOf(I) == CHOOSE j \in I : \A k \in I : k <= j

\* the non-public entries whose key has the grouping prefix p
NonPublicWithPrefix(p) == {i \in WithPrefix(p) : ~IsPublicKey(tVars[i].key)}

\* C11 as stated, read in its favour (only calls that returned are looked at,
\* and of public variables that fold to the same property the last one is
\* the one expected there): every PUBLIC_ or NUXT_PUBLIC_ variable is at
\* public.<camel-cased stripped key>, nothing under public is a nested
\* object, and a non-public key that is alone among the non-public keys with
\* its prefix stays an ungrouped top-level string when public keys have that
\* prefix as their sub-prefix.
C11_Original ==
    TReturned =>
        /\ \A i \in PublicEntries :
                LET path == <<publicKey, toCamelCase(Stripped(tVars[i].key))>>
                IN  /\ path \in DOMAIN tOut.leaves
                    /\ tOut.leaves[path] = tVars[LastOf(SamePublicProperty(i))].value
        /\ \A path \in tOut.objs : Len(path) >= 1 /\ path[1] = publicKey => Len(path) = 1
        /\ \A q \in PublicPrefixes :
                Cardinality(NonPublicWithPrefix(q)) = 1 =>
                    \A i \in NonPublicWithPrefix(q) :
                        <<toCamelCase(tVars[i].key)>> \in DOMAIN tOut.leaves

\* C12 as stated: transformEnvVars returns a mapping for every list of
\* entries, never failing, and returns the empty mapping for the empty list.
C12_Original ==
    TRan =>
        /\ ~tOut.err
        /\ tVars = <<>> => tOut = EmptyObject

\* the fold C13 describes, from position i of s: every separator is dropped,
\* the character after a dropped separator is upper-cased (up says that the
\* character at i follows one), every other letter is lower-cased
RECURSIVE FoldFrom(_, _, _)
FoldFrom(s, i, up) ==
    IF i > Len(s) THEN <<>>
    ELSE IF s[i] = "_" THEN FoldFrom(s, i + 1, TRUE)
    ELSE <<(IF up THEN toUpperChar(s[i]) ELSE toLowerChar(s[i]))>> \o FoldFrom(s, i + 1, FALSE)

Fold(s) == FoldFrom(s, 1, FALSE)

\* C13 as stated, seen through a call on one entry whose key goes through
\* toCamelCase whole (no public prefix): the property the entry gets is the
\* fold of its key, with no separator left in it.
C13_Original ==
    (TReturned /\ Len(tVars) = 1 /\ ~IsPublicKey(tVars[1].key)) =>
        DOMAIN tOut.leaves = {<<Fold(tVars[1].key)>>}

(***************************************************************************)
(* Claims about validateRuntimeConfig                                      *)
(***************************************************************************)
Validated == vOut.status = "done"
ExposesValidate(schema) ==
    schema.isObject /\ schema.hasStandard /\ schema.standardIsObject /\ schema.validateIsFunction
SchemaReturned(result) == ~result.throws
NonEmptyIssues(result) == SchemaReturned(result) /\ result.hasIssues /\ Len(result.issues) >= 1
LogsAt(level) == {i \in DOMAIN vOut.logs : vOut.logs[i].level = level}

\* C14: with a compatible schema whose validate returns, validateRuntimeConfig
\* raises if and only if the issue list returned is non-empty and onError is
\* 'throw'; with 'warn' it logs the report once and returns normally; with
\* 'ignore' it returns normally and logs nothing; an empty or absent issue
\* list is never treated as a failure
C14_OnErrorPolicy ==
    (Validated /\ ExposesValidate(vIn.schema) /\ SchemaReturned(vIn.result)) =>
        /\ vOut.raised <=> (NonEmptyIssues(vIn.result) /\ vIn.opts.onError = "throw")
        /\ (NonEmptyIssues(vIn.result) /\ vIn.opts.onError = "warn") =>
                /\ ~vOut.raised
                /\ Len(vOut.logs) = 1
                /\ vOut.logs[1] = log("warn", failureReport(vIn.result.issues))
        /\ (NonEmptyIssues(vIn.result) /\ vIn.opts.onError = "ignore") =>
                ~vOut.raised /\ vOut.logs = <<>>
        /\ ~NonEmptyIssues(vIn.result) =>
                ~vOut.raised /\ LogsAt("error") = {} /\ LogsAt("warn") = {}

C14_Witness ==
    /\ Validated /\ ExposesValidate(vIn.schema)
    /\ NonEmptyIssues(vIn.result) /\ vIn.opts.onError = "throw"
    /\ vOut.raised /\ vOut.error = "Runtime config validation failed"

C16_SuccessLog ==
    Validated =>
        /\ (\E i \in DOMAIN vOut.logs : vOut.logs[i] = log("success", SuccessMessage))
                <=> /\ ExposesValidate(vIn.schema)
                    /\ SchemaReturned(vIn.result)
                    /\ ~NonEmptyIssues(vIn.result)
                    /\ vIn.opts.logSuccess
        /\ LogsAt("success") = {} \/ (LogsAt("error") = {} /\ LogsAt("warn") = {})
        /\ Len(vOut.logs) <= 1

C16_Witness ==
    /\ Validated /\ vIn.opts.logSuccess /\ vIn.result.hasIssues
    /\ vOut.logs = <<log("success", SuccessMessage)>>

\* the path the report shows for an issue: 'root' when the issue has no path
\* segments, the dot-joined accessors otherwise
ReportedPath(issue) ==
    IF ~issue.hasPath \/ Len(issue.path) = 0 THEN <<"root">>
    ELSE join([i \in DOMAIN issue.path |->
                IF issue.path[i].isObject THEN <<issue.path[i].key>> ELSE <<issue.path[i].raw>>],
              ".")

ReportedLine(issues, i) ==
    <<"  ", String(i), ". ">> \o ReportedPath(issues[i]) \o <<": ">> \o issues[i].message

\* C17: the failure report has one line per returned issue, in the order
\* returned, each prefixed with its 1-based ordinal and formatted as
\* '<path>: <message>', where <path> is the dot-joined sequence of the path
\* accessors and is 'root' when the issue has no path segments (absent or
\* empty path).  Stated for issues that carry a message.
C17_Original ==
    (/\ Validated /\ ExposesValidate(vIn.schema) /\ NonEmptyIssues(vIn.result)
     /\ vIn.opts.onError # "ignore"
     /\ \A i \in DOMAIN vIn.result.issues : vIn.result.issues[i].message # <<>>) =>
        vOut.logs[1].text =
            <<"Validation failed!", "\n">>
                \o join([i \in DOMAIN vIn.result.issues |-> ReportedLine(vIn.result.issues, i)], "\n")

(***************************************************************************)
(* Claims about setup and the lifecycle                                    *)
(***************************************************************************)
Happened(trace, event) == {i \in DOMAIN trace : trace[i] = event}
HooksNamed(name) == {i \in DOMAIN nuxt.hooks : nuxt.hooks[i].name = name}
SetupReturned == nuxt.phase \in {"modules-done", "ready", "built"}
BuildValidations == Happened(nuxt.trace, "validate:ready") \cup Happened(nuxt.trace, "validate:build:done")
\* setup itself raised: the run failed before any hook validated
SetupRaised == nuxt.phase = "failed" /\ BuildValidations = {}

\* C18: build-time validation runs at two lifecycle points, when the host
\* becomes ready and when the build completes, if and only if a schema is
\* supplied and validateAtBuild is set; the one at ready is skipped in a
\* preparation-only pass; without a schema no validation hook is registered
\* and setup raises for no content of the configuration; after a ready-phase
\* validation that raised the build-done validation is never reached
C18_BuildTimeValidation ==
    LET atBuild == sIn.schema /\ sIn.validateAtBuild
        ready == Happened(nuxt.trace, "validate:ready")
        done == Happened(nuxt.trace, "validate:build:done")
    IN  /\ SetupReturned =>
                /\ Cardinality(HooksNamed("ready")) = (IF atBuild THEN 1 ELSE 0)
                /\ Cardinality(HooksNamed("build:done")) = (IF atBuild THEN 1 ELSE 0)
        /\ nuxt.phase \in {"ready", "built"} =>
                Cardinality(ready) = (IF atBuild /\ ~sIn.prepare THEN 1 ELSE 0)
        /\ nuxt.phase = "built" => Cardinality(done) = (IF atBuild THEN 1 ELSE 0)
        /\ ~atBuild => BuildValidations = {}
        /\ ~sIn.schema =>
                /\ HooksNamed("ready") = {} /\ HooksNamed("build:done") = {}
                /\ nuxt.phase = "failed" => Happened(nuxt.trace, "resolve") # {}
        /\ \A i \in ready : nuxt.trace[Len(nuxt.trace)] = "raise" /\ nuxt.phase = "failed"
                                => done = {}
        /\ \A j \in done : sIn.prepare \/ \E i \in ready : i < j

C18_Witness ==
    /\ nuxt.phase = "built" /\ sIn.schema /\ sIn.validateAtBuild /\ ~sIn.prepare
    /\ Happened(nuxt.trace, "validate:ready") # {}
    /\ Happened(nuxt.trace, "validate:build:done") # {}

\* options.shelve enables the provider
ProviderEnabled(shelve) ==
    \/ shelve.kind = "true"
    \/ /\ shelve.kind = "object"
       /\ shelve.enabled # "false"
       /\ \/ shelve.enabled = "true"
          \/ \E name \in {shelve.names.project, shelve.names.slug, shelve.names.team} :
                name # Null /\ Len(name) > 0

Mandatory(shelve) == shelve.kind = "true" \/ shelve.fetchAtBuild # "false"
SetupLogs(level) ==
    {i \in DOMAIN nuxt.logs :
        nuxt.logs[i].level = level /\ nuxt.logs[i].text[1] # "Validation failed!"}

\* C19: in setup with the provider enabled, on the build-time fetch path
\* (fetchAtBuild not false) a resolution or fetch error is logged and raised
\* again only if onBuildError is 'throw', otherwise setup continues with the
\* runtime config unchanged; with fetchAtBuild false a resolution error
\* becomes a warning, setup continues without secrets whatever onBuildError
\* is, and no remote call is made
C19_ProviderErrors ==
    (nuxt.phase # "init" /\ ProviderEnabled(sIn.shelve)) =>
        LET merged == Happened(nuxt.trace, "merge") # {}
        IN  /\ (Mandatory(sIn.shelve) /\ ~merged) =>
                    /\ SetupLogs("error") # {}
                    /\ SetupRaised <=> sIn.onBuildError = "throw"
                    /\ nuxt.runtimeConfig = sIn.runtimeConfig
                    /\ nuxt.nitroRuntimeConfig = sIn.runtimeConfig
                    /\ (sIn.onBuildError # "throw" /\ sIn.schema) =>
                            "types/safe-runtime-config.d.ts" \in nuxt.templates
            /\ (Mandatory(sIn.shelve) /\ merged) => ~SetupRaised
            /\ ~Mandatory(sIn.shelve) =>
                    /\ ~SetupRaised
                    /\ Happened(nuxt.trace, "fetch") = {} /\ ~merged
                    /\ SetupLogs("error") = {}
                    /\ nuxt.runtimeConfig = sIn.runtimeConfig
                    /\ nuxt.nitroRuntimeConfig = sIn.runtimeConfig
                    /\ ~nuxt.hasShelveConfig <=>
                            \E i \in SetupLogs("warn") :
                                nuxt.logs[i].text[1] = "Shelve config resolution failed: "
                    /\ sIn.schema => "types/safe-runtime-config.d.ts" \in nuxt.templates

C19_Witness ==
    /\ ProviderEnabled(sIn.shelve) /\ Mandatory(sIn.shelve)
    /\ sIn.onBuildError = "warn"
    /\ nuxt.phase = "modules-done"
    /\ Happened(nuxt.trace, "fetch") # {} /\ Happened(nuxt.trace, "merge") = {}
    /\ SetupLogs("error") # {}

PositionOf(plugin) == {i \in DOMAIN server.plugins : server.plugins[i] = plugin}

\* the secrets setup fetched and merged are those it cached; in the merged
\* config each of them has the fetched value and every other static key
\* its static value
MergePrecedence ==
    \A k \in DOMAIN secretsCache :
        secretsCache[k].has =>
            LET secrets == secretsCache[k].data
            IN  /\ \A q \in DOMAIN secrets.leaves :
                        /\ q \in DOMAIN nuxt.runtimeConfig.leaves
                        /\ nuxt.runtimeConfig.leaves[q] = secrets.leaves[q]
                /\ \A q \in (DOMAIN sIn.runtimeConfig.leaves) \ (DOMAIN secrets.leaves) :
                        /\ q \in DOMAIN nuxt.runtimeConfig.leaves
                        /\ nuxt.runtimeConfig.leaves[q] = sIn.runtimeConfig.leaves[q]

\* C20: fetched secrets are merged into the configuration strictly before any
\* validation of that configuration runs: at build time the merge is in setup,
\* before the ready and build-done hooks can fire; at run time the secrets
\* plugin is ahead of the validation plugin in the plugin list; and in the
\* merge a fetched secret takes precedence over a static value at the same
\* key while keys absent from the secrets are preserved
C20_Original ==
    /\ \A i \in Happened(nuxt.trace, "merge") : \A j \in BuildValidations : i < j
    /\ \A i \in PositionOf(ShelvePlugin) : \A j \in PositionOf(ValidatePlugin) : i < j
    /\ \A i \in Happened(server.trace, "merge") :
            \A j \in Happened(server.trace, "validate") : i < j
    /\ MergePrecedence

\* C21: shouldEnableShelve answers true exactly for the literal true and for
\* an object whose enabled is not false and that has enabled true or a
\* non-empty project, slug or team (enabled false wins over the names; false,
\* undefined and the empty object give false); when it answers false, setup
\* resolves no provider config, issues no remote call and leaves the runtime
\* config unchanged.  Setup resolves the provider config exactly when
\* shouldEnableShelve answered true.
C21_ProviderSwitch ==
    nuxt.phase # "init" =>
        /\ Happened(nuxt.trace, "resolve") # {} <=> ProviderEnabled(sIn.shelve)
        /\ sIn.shelve.kind \in {"false", "undefined"} => Happened(nuxt.trace, "resolve") = {}
        /\ (sIn.shelve.kind = "object" /\ sIn.shelve.enabled = "false")
                => Happened(nuxt.trace, "resolve") = {}
        /\ ~ProviderEnabled(sIn.shelve) =>
                /\ Happened(nuxt.trace, "fetch") = {} /\ Happened(nuxt.trace, "merge") = {}
                /\ ~nuxt.hasShelveConfig
                /\ secretsCache = <<>>
                /\ PositionOf(ShelvePlugin) = {}
                /\ nuxt.runtimeConfig = sIn.runtimeConfig
                /\ nuxt.nitroRuntimeConfig = sIn.runtimeConfig

C21_Witness ==
    /\ nuxt.phase = "modules-done"
    /\ sIn.shelve.kind = "object" /\ sIn.shelve.enabled = "false"
    /\ sIn.shelve.names.project # Null /\ sIn.shelve.fetchAtRuntime
    /\ nuxt.trace = <<>>
    /\ nuxt.runtimeConfig = sIn.runtimeConfig

(***************************************************************************)
(* Claims about the type signature                                         *)
(***************************************************************************)
Converted == nOut.status = "done"

\* C22: for every schema node without cycles jsonSchemaToTs returns a
\* non-empty string; the signature of a primitive depends only on its
\* declared kind, with 'integer' and 'number' giving the same signature; a
\* reference node and an empty or unrecognised node give 'unknown'
C22_Original ==
    Converted =>
        /\ Len(nOut.signature) >= 1
        /\ \A i \in DOMAIN nOut.signature : nOut.signature[i] # ""
        /\ nIn.tag = "primitive" =>
                nOut.signature =
                    <<CASE nIn.kind = "string" -> "string"
                        [] nIn.kind \in {"number", "integer"} -> "number"
                        [] nIn.kind = "boolean" -> "boolean"
                        [] nIn.kind = "null" -> "null">>
        /\ nIn.tag \in {"reference", "empty", "unrecognised"} => nOut.signature = <<"unknown">>

(***************************************************************************)
(* Claims about the two grouping paths                                     *)
(***************************************************************************)
BothReturned == tOut # NotRun /\ wOut # NotRun /\ ~tOut.err /\ ~wOut.err

\* the keys of an object tree: its property paths, and which of them are objects
KeyTree(T) == [leaves |-> DOMAIN T.leaves, objs |-> T.objs]

\* the sub-prefixes two public entries of the input share
SharedSubPrefixes == {q \in PublicPrefixes : Cardinality(PublicWithPrefix(q)) >= 2}

\* C25 as stated: the two grouping paths do not give the same shape.  For a
\* list of distinct keys with two public keys sharing a sub-prefix, the
\* structure the wizard's transformKeysToStructure builds nests a group
\* under public, the config transformEnvVars builds from the same keys is
\* flat under public, and the key trees differ; a key with a bare NUXT_
\* prefix is stripped by the wizard only, so the key trees differ there too
C25_Original ==
    (BothReturned /\ DistinctKeys) =>
        /\ \A p \in SharedSubPrefixes :
                /\ <<publicKey, Fold(p)>> \in wOut.objs
                /\ \A q \in tOut.objs : Len(q) >= 1 /\ q[1] = publicKey => q = <<publicKey>>
                /\ \A q \in DOMAIN tOut.leaves : q[1] = publicKey => Len(q) = 2
                /\ KeyTree(tOut) # KeyTree(wOut)
        /\ (\E i \in DOMAIN tVars :
                /\ startsWith(tVars[i].key, NUXT_)
                /\ ~startsWith(tVars[i].key, NUXT_PUBLIC_))
            => KeyTree(tOut) # KeyTree(wOut)

\* the same, on the lists that hold no separator-free PUBLIC key
C25_WithoutBarePublic ==
    (\A i \in DOMAIN tVars : tVars[i].key # <<"P","U","B","L","I","C">>) => C25_Original

(***************************************************************************)
(* Claims about the credential                                             *)
(***************************************************************************)
\* the tokens the build can be given
BuildTokens == {env.SHELVE_TOKEN : env \in SetupEnvs} \ {Null}

\* the text holds the token among its pieces
Discloses(text, token) == \E i \in DOMAIN text : <<text[i]>> = token

\* C26: the credential is never kept in the clear.  Every key of the cache
\* ends with the 8-digit digest of the token and holds the token nowhere;
\* the config a written shelve-plugin embeds has the fields url, slug,
\* project and environment of the resolved config and no other, so no
\* field of it is the token
C26_CredentialNotInClear ==
    /\ \A key \in DOMAIN secretsCache :
            /\ \A token \in BuildTokens : ~Discloses(key, token)
            /\ nuxt.hasShelveConfig
            /\ <<key[Len(key)]>> = tokenHash(nuxt.shelveConfig.token)
    /\ (ShelvePlugin \in nuxt.templates) = (Len(nuxt.embedded) = 1)
    /\ Len(nuxt.embedded) <= 1
    /\ \A i \in DOMAIN nuxt.embedded :
            /\ DOMAIN nuxt.embedded[i] = {"url", "slug", "project", "environment"}
            /\ \A f \in DOMAIN nuxt.embedded[i] :
                    /\ nuxt.embedded[i][f] = nuxt.shelveConfig[f]
                    /\ nuxt.embedded[i][f] \notin BuildTokens

C26_Witness ==
    /\ DOMAIN secretsCache # {}
    /\ Len(nuxt.embedded) = 1
    /\ nuxt.shelveConfig.token \in BuildTokens
    /\ server.secrets = "fetching"

(***************************************************************************)
(* Claims about the plugins of the running server                          *)
(***************************************************************************)
\* the server is about to call the plugin
NextPlugin(plugin) ==
    /\ server.phase = "starting"
    /\ server.ran < Len(server.plugins)
    /\ server.plugins[server.ran + 1] = plugin

\* what the step wrote to the server's log, by level
NewLevels ==
    [i \in 1..(Len(server'.logs) - Len(server.logs)) |-> server'.logs[Len(server.logs) + i].level]

LevelsOf(logs) == [i \in DOMAIN logs |-> logs[i].level]

Wrote(level) == \E i \in DOMAIN NewLevels : NewLevels[i] = level

\* C27: the validate-plugin applies the error policy of validateRuntimeConfig
\* under onRuntimeError.  Called on the server's config, it raises exactly
\* when the config is invalid and the policy is 'throw', warns and lets the
\* server go on exactly when it is invalid and the policy is 'warn', writes
\* nothing when it is invalid and the policy is 'ignore', and logs the
\* success exactly when the config is valid and logSuccess is set: the same
\* raise and the same log levels validateRuntimeConfig gives for that policy
C27_RuntimePolicy ==
    [][(NextPlugin(ValidatePlugin) /\ server'.ran = server.ran + 1) =>
        LET invalid == ~Valid(server.config)
            d == validateRuntimeConfig(StandardSchema, schemaValidate(server.config),
                    [onError |-> sIn.onRuntimeError, logSuccess |-> sIn.logSuccess])
        IN  /\ (server'.phase = "failed") = (invalid /\ sIn.onRuntimeError = "throw")
            /\ server'.phase \in {"failed", "starting"}
            /\ Wrote("error") = (invalid /\ sIn.onRuntimeError = "throw")
            /\ Wrote("warn") = (invalid /\ sIn.onRuntimeError = "warn")
            /\ (invalid /\ sIn.onRuntimeError = "ignore") => NewLevels = <<>>
            /\ Wrote("success") = (~invalid /\ sIn.logSuccess)
            /\ d.raised = (server'.phase = "failed")
            /\ LevelsOf(d.logs) = NewLevels
            /\ server'.config = server.config
    ]_vars

C27_Witness ==
    /\ Happened(server.trace, "validate") # {}
    /\ sIn.onRuntimeError = "warn" /\ sIn.onBuildError = "throw"
    /\ \E i \in DOMAIN server.logs : server.logs[i].level = "warn"
    /\ server.phase = "up"

\* what the step added to the server's trace
NewEvents == SubSeq(server'.trace, Len(server.trace) + 1, Len(server'.trace))

Requests(trace) == SelectSeq(trace, LAMBDA e : e \in {"request:project", "request:environment", "request:variables"})

AllRequests == <<"request:project", "request:environment", "request:variables">>

\* the call to the endpoint was rejected, and no request was issued after it
EndedAt(trace, endpoint, issued) ==
    /\ Happened(trace, "rejected:" \o endpoint) # {}
    /\ Requests(trace) = SubSeq(AllRequests, 1, issued)

\* the config after the step has every transformed secret at its value, and
\* whatever else it has at the value it had
SecretsFirst ==
    LET secrets == transformEnvVars(server'.listed)
    IN  /\ ~secrets.err
        /\ \A q \in DOMAIN secrets.leaves :
                q \in DOMAIN server'.config.leaves
                    /\ server'.config.leaves[q] = secrets.leaves[q]
        /\ \A q \in (DOMAIN server'.config.leaves) \ (DOMAIN secrets.leaves) :
                q \in DOMAIN server.config.leaves
                    /\ server'.config.leaves[q] = server.config.leaves[q]

\* C30: the shelve-plugin never raises, whatever onRuntimeError is.  With no
\* SHELVE_TOKEN it issues no remote call; when one of its three ordered
\* remote calls fails it logs the error and returns without issuing the
\* later ones; when the variable list is empty it merges nothing; in each of
\* these cases the runtime config is left as it was; and the transformed
\* secrets are merged only after a successful non-empty listing, the secrets
\* taking precedence over the existing values
C30_SecretsPlugin ==
    /\ [][(NextPlugin(ShelvePlugin) /\ server'.ran = server.ran + 1) =>
            /\ server'.phase = server.phase
            /\ server'.config = server.config
            /\ \/ /\ server'.secrets = "done"
                  /\ NewEvents = <<>>
                  /\ NewLevels = <<"warn">>
               \/ /\ server'.secrets = "fetching"
                  /\ NewEvents = <<"request:project">>
                  /\ NewLevels = <<>>
       ]_vars
    /\ [][(server.secrets = "fetching" /\ server'.secrets = "done") =>
            LET trace == server'.trace
                merged == Happened(NewEvents, "merge") # {}
            IN  /\ server'.phase = server.phase
                /\ Len(NewLevels) = 1
                /\ \/ EndedAt(trace, "project", 1) /\ NewLevels = <<"error">>
                   \/ EndedAt(trace, "environment", 2) /\ NewLevels = <<"error">>
                   \/ EndedAt(trace, "variables", 3) /\ NewLevels = <<"error">>
                   \/ /\ Requests(trace) = AllRequests
                      /\ \A e \in {"project", "environment", "variables"} :
                            Happened(trace, "rejected:" \o e) = {}
                      /\ \/ Len(server'.listed) = 0 /\ NewLevels = <<"info">>
                         \/ Len(server'.listed) > 0 /\ NewLevels \in {<<"success">>, <<"error">>}
                /\ merged = (NewLevels = <<"success">>)
                /\ merged => Len(server'.listed) > 0 /\ SecretsFirst
                /\ ~merged => server'.config = server.config
       ]_vars
    /\ [](server.phase = "failed" => Happened(server.trace, "validate") # {})
    /\ [](Happened(server.trace, "request:project") = {} =>
            server.config \in {NotRun, nuxt.nitroRuntimeConfig})

\* a server whose plugin merged a secret over a static value of another value
C30_Witness ==
    /\ Happened(server.trace, "merge") # {}
    /\ sIn.onRuntimeError = "throw"
    /\ server.phase = "up"
    /\ \E q \in DOMAIN nuxt.nitroRuntimeConfig.leaves :
            server.config.leaves[q] # nuxt.nitroRuntimeConfig.leaves[q]
====
